---- MODULE Spec2Model ----
(***************************************************************************)
(* Model of the Tempero das Gurias closing tool: the statement adapters,   *)
(* the description synthesizer, the categorization engine with its learned *)
(* rule table, and the closing run of the Streamlit app                    *)
(* (fechamento_tempero_app.py) together with the command-line variant      *)
(* (fechamento_tempero.py).                                                *)
(*                                                                         *)
(* Representation.  A Python str is a sequence of characters, each         *)
(* character a one-element TLA+ string.  An accented letter is written as  *)
(* the letter followed by its mark: "A~" is A-tilde, "A'" A-acute,         *)
(* "A!" A-grave, "A^" A-circumflex, "C," C-cedilla, and the same in lower  *)
(* case.  Money is an integer number of cents.  A Python value (a cell of  *)
(* a data frame, a dict value) is a record tagged by its type: None, NaN,  *)
(* a float, a str, or a timestamp.                                         *)
(***************************************************************************)
EXTENDS Integers, Sequences, FiniteSets, TLC

(***************************************************************************)
(* Python values                                                           *)
(***************************************************************************)
PyNone == [t |-> "none"]
PyNaN == [t |-> "nan"]
PyNum(n) == [t |-> "num", n |-> n]
PyStr(s) == [t |-> "str", s |-> s]
PyTrue == [t |-> "bool", b |-> TRUE]
PyDate(ym) == [t |-> "date", ym |-> ym]

\* bool(v): None, 0, 0.0 and "" are falsy; NaN, timestamps and other strings truthy.
truthy(v) ==
  CASE v.t = "none" -> FALSE
    [] v.t = "nan" -> TRUE
    [] v.t = "num" -> v.n # 0
    [] v.t = "str" -> v.s # <<>>
    [] v.t = "date" -> TRUE
    [] v.t = "bool" -> v.b

\* a or b
pyor(a, b) == IF truthy(a) THEN a ELSE b

(***************************************************************************)
(* str primitives                                                          *)
(***************************************************************************)
IsWs(c) == c = " "

RECURSIVE lstrip(_)
lstrip(s) == IF s # <<>> /\ IsWs(Head(s)) THEN lstrip(Tail(s)) ELSE s

RECURSIVE rstrip(_)
rstrip(s) ==
  IF s # <<>> /\ IsWs(s[Len(s)]) THEN rstrip(SubSeq(s, 1, Len(s) - 1)) ELSE s

\* s.strip()
strip(s) == rstrip(lstrip(s))

\* p in s  (substring test)
contains(p, s) ==
  \/ p = <<>>
  \/ \E i \in 1..(Len(s) - Len(p) + 1) :
       s[i] = p[1] /\ SubSeq(s, i, i + Len(p) - 1) = p

\* s.replace(old, new), old non-empty: leftmost non-overlapping occurrences
RECURSIVE replace(_, _, _)
replace(s, old, new) ==
  IF Len(old) = 1 /\ Len(new) = 1
  THEN [i \in 1..Len(s) |-> IF s[i] = old[1] THEN new[1] ELSE s[i]]
  ELSE IF Len(s) < Len(old) THEN s
  ELSE IF SubSeq(s, 1, Len(old)) = old
       THEN new \o replace(SubSeq(s, Len(old) + 1, Len(s)), old, new)
       ELSE <<Head(s)>> \o replace(Tail(s), old, new)

LowerChars == <<"a", "b", "c", "d", "e", "f", "g", "h", "i", "j", "k", "l", "m",
                "n", "o", "p", "q", "r", "s", "t", "u", "v", "w", "x", "y", "z",
                "a~", "a'", "a!", "a^", "e'", "e^", "i'", "o'", "o^", "o~", "u'", "c,">>
UpperChars == <<"A", "B", "C", "D", "E", "F", "G", "H", "I", "J", "K", "L", "M",
                "N", "O", "P", "Q", "R", "S", "T", "U", "V", "W", "X", "Y", "Z",
                "A~", "A'", "A!", "A^", "E'", "E^", "I'", "O'", "O^", "O~", "U'", "C,">>

\* lower-case letter -> upper-case letter
UpperDe ==
  [c \in {LowerChars[i] : i \in 1..Len(LowerChars)} |->
     UpperChars[CHOOSE i \in 1..Len(LowerChars) : LowerChars[i] = c]]

upper_char(c) == IF c \in DOMAIN UpperDe THEN UpperDe[c] ELSE c

\* s.upper()
upper(s) == [i \in 1..Len(s) |-> upper_char(s[i])]

\* upper-case letter -> lower-case letter
LowerDe ==
  [c \in {UpperChars[i] : i \in 1..Len(UpperChars)} |->
     LowerChars[CHOOSE i \in 1..Len(UpperChars) : UpperChars[i] = c]]

lower_char(c) == IF c \in DOMAIN LowerDe THEN LowerDe[c] ELSE c

\* s.lower()
lower(s) == [i \in 1..Len(s) |-> lower_char(s[i])]

\* sep.join(parts)
RECURSIVE join(_, _)
join(sep, parts) ==
  IF parts = <<>> THEN <<>>
  ELSE IF Len(parts) = 1 THEN parts[1]
  ELSE parts[1] \o sep \o join(sep, Tail(parts))

Digits == <<"0", "1", "2", "3", "4", "5", "6", "7", "8", "9">>
DigitChars == {Digits[i] : i \in 1..10}
DigitVal(c) == (CHOOSE i \in 1..10 : Digits[i] = c) - 1
AllDigits(s) == \A i \in 1..Len(s) : s[i] \in DigitChars

RECURSIVE NatOf(_)
NatOf(ds) ==
  IF ds = <<>> THEN 0
  ELSE NatOf(SubSeq(ds, 1, Len(ds) - 1)) * 10 + DigitVal(ds[Len(ds)])

RECURSIVE NatText(_)
NatText(n) ==
  IF n < 10 THEN <<Digits[n + 1]>>
  ELSE NatText(n \div 10) \o <<Digits[(n % 10) + 1]>>

\* The fraction digits of a decimal literal, in cents.  Digits beyond the second
\* are below one cent and are dropped; no enumerated cell has more than two.
FracCents(fp) ==
  IF fp = <<>> THEN 0
  ELSE IF Len(fp) = 1 THEN DigitVal(fp[1]) * 10
  ELSE DigitVal(fp[1]) * 10 + DigitVal(fp[2])

\* float(s) on a stripped string over digits, sign and ".": [sign] digits [. digits]
\* with at least one digit; anything else raises ValueError (ok = FALSE).
float_partes(neg, ip, fp, ndots) ==
  IF ndots <= 1 /\ AllDigits(ip) /\ AllDigits(fp) /\ Len(ip) + Len(fp) > 0
  THEN [ok |-> TRUE,
        v |-> IF neg THEN 0 - (NatOf(ip) * 100 + FracCents(fp))
              ELSE NatOf(ip) * 100 + FracCents(fp)]
  ELSE [ok |-> FALSE, v |-> 0]

float_corpo(neg, body, dots) ==
  IF dots = {} THEN float_partes(neg, body, <<>>, 0)
  ELSE float_partes(neg,
                    SubSeq(body, 1, (CHOOSE i \in dots : TRUE) - 1),
                    SubSeq(body, (CHOOSE i \in dots : TRUE) + 1, Len(body)),
                    Cardinality(dots))

float_sinal(neg, body) ==
  float_corpo(neg, body, {i \in 1..Len(body) : body[i] = "."})

float(s) ==
  IF s # <<>> /\ Head(s) \in {"-", "+"}
  THEN float_sinal(Head(s) = "-", Tail(s))
  ELSE float_sinal(FALSE, s)

\* repr of a float holding a whole number of cents
FloatText(n) ==
  LET a == IF n < 0 THEN 0 - n ELSE n
      fr == a % 100
      frtxt == IF fr % 10 = 0 THEN <<Digits[(fr \div 10) + 1]>>
               ELSE <<Digits[(fr \div 10) + 1], Digits[(fr % 10) + 1]>>
  IN (IF n < 0 THEN <<"-">> ELSE <<>>) \o NatText(a \div 100) \o <<".">> \o frtxt

\* str(v)
pystr(v) ==
  CASE v.t = "none" -> <<"N", "o", "n", "e">>
    [] v.t = "nan" -> <<"n", "a", "n">>
    [] v.t = "num" -> FloatText(v.n)
    [] v.t = "str" -> v.s
    [] v.t = "date" ->
         NatText(v.ym \div 100) \o <<"-">>
           \o (IF v.ym % 100 < 10 THEN <<"0">> ELSE <<>>) \o NatText(v.ym % 100)
           \o <<"-", "0", "1", " ", "0", "0", ":", "0", "0", ":", "0", "0">>

(***************************************************************************)
(* parse_numero_br: a value to cents, or ValueError (ok = FALSE)           *)
(***************************************************************************)
\* a faulty variant: the "." of a string with a "," are kept
parse_texto_sem_remover_ponto(s) ==
  IF s = <<>> \/ s = <<"-">> THEN [ok |-> TRUE, v |-> 0]
  ELSE IF contains(<<",">>, s)
       THEN float(replace(s, <<",">>, <<".">>))
       ELSE float(s)

\* the string branch after s = s.replace("R$", "").strip()
parse_texto(s) ==
  IF s = <<>> \/ s = <<"-">> THEN [ok |-> TRUE, v |-> 0]
  ELSE IF contains(<<",">>, s)
       THEN float(replace(replace(s, <<".">>, <<>>), <<",">>, <<".">>))
       ELSE float(s)

parse_numero_br(valor) ==
  IF valor.t = "none" THEN [ok |-> TRUE, v |-> 0]
  ELSE IF valor.t = "nan" THEN [ok |-> TRUE, v |-> 0]
  ELSE IF valor.t = "num" THEN [ok |-> TRUE, v |-> valor.n]
  ELSE parse_texto(strip(replace(pystr(valor), <<"R", "$">>, <<>>)))

(***************************************************************************)
(* normalizar_texto                                                        *)
(***************************************************************************)
substituicoes ==
  << <<"O'", "O">>, <<"O^", "O">>, <<"O~", "O">>,
     <<"I'", "I">>,
     <<"A'", "A">>, <<"A!", "A">>, <<"A~", "A">>,
     <<"E'", "E">>, <<"E^", "E">>,
     <<"U'", "U">>,
     <<"C,", "C">> >>

RECURSIVE aplicar_substituicoes(_, _)
aplicar_substituicoes(s, i) ==
  IF i > Len(substituicoes) THEN s
  ELSE aplicar_substituicoes(
         replace(s, <<substituicoes[i][1]>>, <<substituicoes[i][2]>>), i + 1)

\* a faulty variant: the text is not upper-cased first
normalizar_texto_sem_upper(txt) ==
  IF txt.t = "none" THEN <<>>
  ELSE aplicar_substituicoes(pystr(txt), 1)

normalizar_texto(txt) ==
  IF txt.t = "none" THEN <<>>
  ELSE aplicar_substituicoes(upper(pystr(txt)), 1)

(***************************************************************************)
(* RawRow: a dict in column order, a sequence of [k |-> column, v |-> cell] *)
(* with distinct keys                                                      *)
(***************************************************************************)
has_key(linha, key) == \E i \in 1..Len(linha) : linha[i].k = key

\* linha.get(key)
get(linha, key) ==
  IF has_key(linha, key)
  THEN linha[CHOOSE i \in 1..Len(linha) : linha[i].k = key].v
  ELSE PyNone

\* x in lista
in_list(x, lista) == \E i \in 1..Len(lista) : lista[i] = x

(***************************************************************************)
(* extrair_descricao_linha                                                 *)
(***************************************************************************)
candidatos_ignorados ==
  << <<"D", "A", "T", "A">>, <<"V", "A", "L", "O", "R">>, <<"V", "A", "L", "O", "R", "E", "S">>, <<"D", "E", "B", "I", "T", "O">>, <<"D", "E", "B", "I", "T", "O", "(", "-", ")">>,
     <<"D", "E", "B", "I", "T", "O", " ", "(", "+", ")">>, <<"D", "E", "B", "I", "T", "O", " ", "(", "-", ")">>, <<"C", "R", "E", "D", "I", "T", "O">>, <<"C", "R", "E", "D", "I", "T", "O", "(", "+", ")">>,
     <<"C", "R", "E", "D", "I", "T", "O", " ", "(", "+", ")">>, <<"C", "R", "E", "D", "I", "T", "O", " ", "(", "-", ")">>, <<"E", "N", "T", "R", "A", "D", "A">>, <<"E", "N", "T", "R", "A", "D", "A", "S">>,
     <<"S", "A", "I", "D", "A">>, <<"S", "A", "I", "D", "A", "S">>, <<"S", "A", "L", "D", "O">> >>

\* first loop: values of the columns whose normalized name contains HIST or DESCR
parte_hist(v, vs, kl) ==
  IF v.t # "none" /\ vs # <<>>
     /\ (contains(<<"H", "I", "S", "T">>, kl) \/ contains(<<"D", "E", "S", "C", "R">>, kl))
  THEN <<vs>> ELSE <<>>

RECURSIVE partes_hist(_, _)
partes_hist(linha, i) ==
  IF i > Len(linha) THEN <<>>
  ELSE parte_hist(linha[i].v, strip(pystr(linha[i].v)),
                  normalizar_texto(PyStr(strip(linha[i].k))))
         \o partes_hist(linha, i + 1)

\* a faulty variant: a value already collected is collected again
parte_outros_com_repetidos(partes, v, vs, kl) ==
  IF v.t # "none" /\ vs # <<>>
     /\ ~in_list(kl, candidatos_ignorados)
  THEN Append(partes, vs) ELSE partes

\* second loop: values of the columns not ignored and not yet collected
parte_outros(partes, v, vs, kl) ==
  IF v.t # "none" /\ vs # <<>>
     /\ ~in_list(kl, candidatos_ignorados)
     /\ ~in_list(vs, partes)
  THEN Append(partes, vs) ELSE partes

RECURSIVE partes_outros(_, _, _)
partes_outros(linha, i, partes) ==
  IF i > Len(linha) THEN partes
  ELSE partes_outros(linha, i + 1,
         parte_outros(partes, linha[i].v, strip(pystr(linha[i].v)),
                      normalizar_texto(PyStr(strip(linha[i].k)))))

descricao_de_partes(partes) ==
  IF partes = <<>> THEN PyNone ELSE PyStr(join(<<" ", "|", " ">>, partes))

extrair_descricao_linha(linha) ==
  IF has_key(linha, <<"d", "e", "s", "c", "r", "i", "c", "a", "o">>)
     /\ get(linha, <<"d", "e", "s", "c", "r", "i", "c", "a", "o">>) \notin {PyNone, PyStr(<<>>)}
  THEN get(linha, <<"d", "e", "s", "c", "r", "i", "c", "a", "o">>)
  ELSE descricao_de_partes(partes_outros(linha, 1, partes_hist(linha, 1)))

(***************************************************************************)
(* classificar_categoria (app): learned rules, keyword rules, sign default *)
(* A rule table is a dict in insertion order: a sequence of                *)
(* [k |-> pattern, v |-> category label].                                  *)
(***************************************************************************)
CatDedetizacao == "Dedetizacao / Controle de Pragas"
CatEnergia == "Energia Eletrica"
CatContabilidade == "Contabilidade e RH"
CatCartao == "Fatura Cartao"
CatInvestimentos == "Investimentos (Aplicacoes)"
CatRendimentos == "Rendimentos de Aplicacoes"
CatAluguel == "Aluguel Comercial"
CatMotoboy == "Motoboy / Entregas"
CatFolha == "Folha de Pagamento"
CatNutricionista == "Nutricionista"
CatImpostos == "Impostos e Encargos"
CatTransferencia == "Transferencia Interna / Socios"
CatVendas == "Vendas / Receitas"
CatFornecedores == "Fornecedores e Insumos"
CatAClassificar == "A Classificar"

\* the index of the first rule whose pattern occurs in desc_norm, 0 if none
\* a faulty variant: the last matching rule is taken
ultima_regra(regras, desc_norm) ==
  LET hits == {i \in 1..Len(regras) : contains(regras[i].k, desc_norm)}
  IN IF hits = {} THEN 0
     ELSE CHOOSE i \in hits : \A j \in hits : j <= i

primeira_regra(regras, desc_norm) ==
  LET hits == {i \in 1..Len(regras) : contains(regras[i].k, desc_norm)}
  IN IF hits = {} THEN 0
     ELSE CHOOSE i \in hits : \A j \in hits : i <= j

\* a faulty variant: a transfer keyword or a partner keyword alone is enough
eh_transferencia_interna_so_uma(desc_norm) ==
  \/ \/ contains(<<"T", "R", "A", "N", "S", "F", "E", "R", "E", "N", "C", "I", "A">>, desc_norm)
     \/ contains(<<"T", "R", "A", "N", "S", "F", "E", "R", "E^", "N", "C", "I", "A">>, desc_norm)
     \/ contains(<<"P", "I", "X">>, desc_norm)
  \/ \/ contains(<<"R", "I", "C", "A", "R", "D", "O">>, desc_norm)
     \/ contains(<<"L", "I", "Z", "I", "A", "N", "I">>, desc_norm)
     \/ contains(<<"L", "I", "Z", "I">>, desc_norm)

\* the condition of the last keyword test: a transfer keyword and a partner keyword
eh_transferencia_interna(desc_norm) ==
  /\ \/ contains(<<"T", "R", "A", "N", "S", "F", "E", "R", "E", "N", "C", "I", "A">>, desc_norm)
     \/ contains(<<"T", "R", "A", "N", "S", "F", "E", "R", "E^", "N", "C", "I", "A">>, desc_norm)
     \/ contains(<<"P", "I", "X">>, desc_norm)
  /\ \/ contains(<<"R", "I", "C", "A", "R", "D", "O">>, desc_norm)
     \/ contains(<<"L", "I", "Z", "I", "A", "N", "I">>, desc_norm)
     \/ contains(<<"L", "I", "Z", "I">>, desc_norm)

\* the chain of keyword tests; "" when none applies
categoria_palavra_chave(desc_norm) ==
  IF contains(<<"A", "N", "T", "I", "N", "S", "E", "C", "T">>, desc_norm) THEN CatDedetizacao
  ELSE IF \/ contains(<<"C", "I", "A", " ", "E", "S", "T", "A", "D", "U", "A", "L", " ", "D", "E", " ", "D", "I", "S", "T">>, desc_norm)
          \/ contains(<<"C", "E", "E", "E">>, desc_norm)
          \/ contains(<<"E", "N", "E", "R", "G", "I", "A", " ", "E", "L", "E", "T", "R", "I", "C", "A">>, desc_norm) THEN CatEnergia
  ELSE IF \/ contains(<<"R", "E", "C", "H", " ", "C", "O", "N", "T", "A", "B", "I", "L", "I", "D", "A", "D", "E">>, desc_norm)
          \/ contains(<<"R", "E", "C", "H", " ", "C", "O", "N", "T">>, desc_norm) THEN CatContabilidade
  ELSE IF \/ contains(<<"B", "U", "S", "I", "N", "E", "S", "S", " ", " ", " ", " ", " ", " ", "0", "5", "0", "3", "-", "2", "8", "5", "2">>, desc_norm)
          \/ contains(<<"B", "U", "S", "I", "N", "E", "S", "S", " ", "0", "5", "0", "3", "-", "2", "8", "5", "2">>, desc_norm)
          \/ contains(<<"I", "T", "A", "U", " ", "U", "N", "I", "B", "A", "N", "C", "O", " ", "H", "O", "L", "D", "I", "N", "G", " ", "S", ".", "A", ".">>, desc_norm)
          \/ contains(<<"C", "A", "R", "T", "A", "O">>, desc_norm)
          \/ contains(<<"C", "A", "R", "T", "A~", "O">>, desc_norm) THEN CatCartao
  ELSE IF \/ contains(<<"A", "P", "L", "I", "C", "A", "C", "A", "O">>, desc_norm)
          \/ contains(<<"A", "P", "L", "I", "C", "A", "C,", "A~", "O">>, desc_norm)
          \/ contains(<<"C", "D", "B">>, desc_norm)
          \/ contains(<<"C", "R", "E", "D", "B", "A", "N", "C", "R", "F">>, desc_norm) THEN CatInvestimentos
  ELSE IF \/ contains(<<"R", "E", "N", "D", " ", "P", "A", "G", "O", " ", "A", "P", "L", "I", "C">>, desc_norm)
          \/ contains(<<"R", "E", "N", "D", "I", "M", "E", "N", "T", "O", " ", "A", "P", "L", "I", "C">>, desc_norm)
          \/ contains(<<"R", "E", "N", "D", " ", "A", "P", "L", "I", "C">>, desc_norm)
          \/ contains(<<"R", "E", "N", "D", "I", "M", "E", "N", "T", "O">>, desc_norm) THEN CatRendimentos
  ELSE IF \/ contains(<<"Z", "O", "O", "P">>, desc_norm)
          \/ contains(<<"A", "L", "U", "G", "U", "E", "L">>, desc_norm) THEN CatAluguel
  ELSE IF \/ contains(<<"M", "O", "T", "O", "B", "O", "Y">>, desc_norm)
          \/ contains(<<"E", "N", "T", "R", "E", "G", "A">>, desc_norm) THEN CatMotoboy
  ELSE IF \/ contains(<<"C", "A", "R", "O", "L", "I", "N", "E">>, desc_norm)
          \/ contains(<<"V", "E", "R", "O", "N", "I", "C", "A">>, desc_norm)
          \/ contains(<<"V", "E", "R", "O", "N", "I", "C", "A", " ", "D", "A", " ", "S", "I", "L", "V", "A", " ", "C", "A", "R", "D", "O", "S", "O">>, desc_norm)
          \/ contains(<<"E", "V", "E", "L", "L", "Y", "N">>, desc_norm)
          \/ contains(<<"S", "A", "L", "A", "R", "I", "O">>, desc_norm)
          \/ contains(<<"S", "A", "L", "A'", "R", "I", "O">>, desc_norm)
          \/ contains(<<"F", "O", "L", "H", "A">>, desc_norm) THEN CatFolha
  ELSE IF \/ contains(<<"A", "N", "A", " ", "P", "A", "U", "L", "A">>, desc_norm)
          \/ contains(<<"N", "U", "T", "R", "I", "C", "I", "O", "N", "I", "S", "T", "A">>, desc_norm) THEN CatNutricionista
  ELSE IF \/ contains(<<"D", "A", "R", "F">>, desc_norm)
          \/ contains(<<"G", "P", "S">>, desc_norm)
          \/ contains(<<"F", "G", "T", "S">>, desc_norm)
          \/ contains(<<"I", "N", "S", "S">>, desc_norm)
          \/ contains(<<"S", "I", "M", "P", "L", "E", "S", " ", "N", "A", "C", "I", "O", "N", "A", "L">>, desc_norm)
          \/ contains(<<"I", "M", "P", "O", "S", "T", "O">>, desc_norm) THEN CatImpostos
  ELSE IF eh_transferencia_interna(desc_norm) THEN CatTransferencia
  ELSE ""

\* a faulty variant: a zero amount falls in the positive branch
categoria_padrao_zero_positivo(valor) ==
  IF valor >= 0 THEN CatVendas ELSE CatFornecedores

\* the last three lines of classificar_categoria
categoria_padrao(valor) ==
  IF valor > 0 THEN CatVendas
  ELSE IF valor < 0 THEN CatFornecedores
  ELSE CatAClassificar

\* mov is [descricao |-> cell, valor |-> cents]; REGRAS is the rule table read
\* from the module global REGRAS_CATEGORIA
\* a faulty variant: the keyword chain is consulted before the learned rules
escolher_categoria_palavra_chave_primeiro(REGRAS, r, kw, valor) ==
  IF kw # "" THEN kw
  ELSE IF r # 0 THEN REGRAS[r].v
  ELSE categoria_padrao(valor)

escolher_categoria(REGRAS, r, kw, valor) ==
  IF r # 0 THEN REGRAS[r].v
  ELSE IF kw # "" THEN kw
  ELSE categoria_padrao(valor)

classificar_desc_norm(desc_norm, valor, REGRAS) ==
  escolher_categoria(REGRAS, primeira_regra(REGRAS, desc_norm),
                     categoria_palavra_chave(desc_norm), valor)

classificar_categoria(mov, REGRAS) ==
  classificar_desc_norm(normalizar_texto(mov.descricao), mov.valor, REGRAS)

(***************************************************************************)
(* dict helpers (insertion-ordered)                                        *)
(***************************************************************************)
\* d[key] = val: overwrite in place, or append a new key at the end
dict_set(d, key, val) ==
  IF has_key(d, key)
  THEN [i \in 1..Len(d) |-> IF d[i].k = key THEN [k |-> key, v |-> val] ELSE d[i]]
  ELSE Append(d, [k |-> key, v |-> val])

\* dict(zip(cols, vals)); pandas' csv reader renames a repeated header, which no
\* enumerated statement has
RECURSIVE mkdict(_, _, _)
mkdict(cols, vals, i) ==
  IF i = 0 THEN <<>>
  ELSE dict_set(mkdict(cols, vals, i - 1), cols[i], vals[i])

isna(v) == v.t \in {"none", "nan"}

(***************************************************************************)
(* ler_arquivo_tabela_upload.  An uploaded file is                         *)
(* [up |-> TRUE, suffix |-> Path(name).suffix.lower(), raw |-> the sheet   *)
(* read without a header: a sequence of rows, each a sequence of cells of  *)
(* equal length].                                                          *)
(***************************************************************************)
tokens_cabecalho ==
  << <<"L", "A", "N", "C,", "A", "M", "E", "N", "T", "O">>, <<"L", "A", "N", "C", "A", "M", "E", "N", "T", "O">>, <<"L", "A", "N", "C,", "A", "M", "E", "N", "T", "O", "S">>, <<"D", "E", "S", "C", "R", "I", "C,", "A~", "O">>,
     <<"D", "E", "S", "C", "R", "I", "C", "A", "O">>, <<"T", "I", "P", "O">> >>

\* valores of one raw row: str(x).strip().upper() of the non-NaN cells
valores_linha(row) ==
  LET idx == {i \in 1..Len(row) : ~isna(row[i])}
  IN {upper(strip(pystr(row[i]))) : i \in idx}

eh_cabecalho(row) ==
  LET valores == valores_linha(row)
  IN /\ valores # {}
     /\ <<"D", "A", "T", "A">> \in valores
     /\ \E j \in 1..Len(tokens_cabecalho) : tokens_cabecalho[j] \in valores

\* a faulty variant: the scan goes on to the last row that qualifies
header_idx_ultima(raw) ==
  LET hits == {i \in 1..Len(raw) : eh_cabecalho(raw[i])}
  IN IF hits = {} THEN 0 ELSE CHOOSE i \in hits : \A j \in hits : j <= i

\* header_idx (1-based), 0 for None
header_idx(raw) ==
  LET hits == {i \in 1..Len(raw) : eh_cabecalho(raw[i])}
  IN IF hits = {} THEN 0 ELSE CHOOSE i \in hits : \A j \in hits : i <= j

\* column names when a header row was found
cols_detectadas(header_row) ==
  [i \in 1..Len(header_row) |->
     IF header_row[i].t = "str" THEN strip(header_row[i].s)
     ELSE IF isna(header_row[i]) THEN <<>>
     ELSE pystr(header_row[i])]

\* column names pandas gives when the first row is the header
cols_pandas(header_row) ==
  [i \in 1..Len(header_row) |->
     IF isna(header_row[i]) THEN <<"U", "n", "n", "a", "m", "e", "d", ":", " ">> \o NatText(i - 1)
     ELSE pystr(header_row[i])]

\* df.dropna(how="all")
dropna_all(rows) == SelectSeq(rows, LAMBDA r : \E i \in 1..Len(r) : ~isna(r[i]))

\* df.rename(columns=str.strip) and to_dict(orient="records")
registros(cols, rows) ==
  LET nomes == [i \in 1..Len(cols) |-> strip(cols[i])]
  IN [r \in 1..Len(rows) |-> mkdict(nomes, rows[r], Len(nomes))]

SufixosCsv == {<<".", "c", "s", "v">>, <<".", "t", "x", "t">>}
SufixosExcel == {<<".", "x", "l", "s", "x">>, <<".", "x", "l", "s">>}

ler_arquivo_tabela_upload(f) ==
  IF f.suffix \in SufixosCsv
  THEN [ok |-> TRUE,
        linhas |-> IF f.raw = <<>> THEN <<>>
                   ELSE registros(cols_pandas(f.raw[1]), Tail(f.raw))]
  ELSE IF f.suffix \in SufixosExcel
  THEN LET h == header_idx(f.raw)
       IN [ok |-> TRUE,
           linhas |->
             IF h # 0
             THEN registros(cols_detectadas(f.raw[h]),
                            dropna_all(SubSeq(f.raw, h + 1, Len(f.raw))))
             ELSE IF f.raw = <<>> THEN <<>>
             ELSE registros(cols_pandas(f.raw[1]), Tail(f.raw))]
  ELSE [ok |-> FALSE, linhas |-> <<>>]

(***************************************************************************)
(* Statement adapters.  A result is                                        *)
(* [erro |-> "" | "RuntimeError" | "ValueError", entradas, saidas,         *)
(*  resultado, movimentos]; a movement is [data, descricao, valor, conta]. *)
(***************************************************************************)
\* linha.get("Data") or linha.get("DATA") or linha.get("data")
data_linha(linha) ==
  pyor(pyor(get(linha, <<"D", "a", "t", "a">>), get(linha, <<"D", "A", "T", "A">>)), get(linha, <<"d", "a", "t", "a">>))

\* a faulty variant: only the opening balance row is recognised
eh_saldo_itau_so_anterior(desc_norm) == contains(<<"S", "A", "L", "D", "O", " ", "A", "N", "T", "E", "R", "I", "O", "R">>, desc_norm)

eh_saldo_itau(desc_norm) ==
  \/ contains(<<"S", "A", "L", "D", "O", " ", "A", "N", "T", "E", "R", "I", "O", "R">>, desc_norm)
  \/ contains(<<"S", "A", "L", "D", "O", " ", "T", "O", "T", "A", "L", " ", "D", "I", "S", "P", "O", "N", "I", "V", "E", "L", " ", "D", "I", "A">>, desc_norm)
  \/ contains(<<"S", "A", "L", "D", "O", " ", "T", "O", "T", "A", "L", " ", "D", "I", "S", "P", "O", "N", "I'", "V", "E", "L", " ", "D", "I", "A">>, desc_norm)
  \/ contains(<<"S", "A", "L", "D", "O", " ", "D", "O", " ", "D", "I", "A">>, desc_norm)

\* the unified value cell: first truthy of the four aliases, else 0
celula_valor_itau(linha) ==
  pyor(pyor(pyor(pyor(get(linha, <<"V", "a", "l", "o", "r">>), get(linha, <<"V", "A", "L", "O", "R">>)),
                 get(linha, <<"v", "a", "l", "o", "r">>)),
            get(linha, <<"V", "a", "l", "o", "r", " ", "(", "R", "$", ")">>)),
       PyNum(0))

\* one column of the debit/credit loop
passo_debito_credito(ant, kl, p) ==
  IF ~ant.ok THEN ant
  ELSE IF (contains(<<"D", "E", "B", "I", "T", "O">>, kl) \/ contains(<<"C", "R", "E", "D", "I", "T", "O">>, kl)) /\ ~p.ok
       THEN [ok |-> FALSE, debito |-> 0, credito |-> 0]
  ELSE [ok |-> TRUE,
        debito |-> IF contains(<<"D", "E", "B", "I", "T", "O">>, kl) THEN p.v ELSE ant.debito,
        credito |-> IF contains(<<"C", "R", "E", "D", "I", "T", "O">>, kl) THEN p.v ELSE ant.credito]

\* the debit/credit loop: [ok, debito, credito] after the first i columns
RECURSIVE debito_credito(_, _)
debito_credito(linha, i) ==
  IF i = 0 THEN [ok |-> TRUE, debito |-> 0, credito |-> 0]
  ELSE passo_debito_credito(debito_credito(linha, i - 1),
                            normalizar_texto(PyStr(strip(linha[i].k))),
                            parse_numero_br(linha[i].v))

\* a faulty variant: the debit and credit columns are looked at first
escolher_valor_debito_credito_primeiro(p, dc) ==
  IF ~p.ok \/ ~dc.ok THEN [ok |-> FALSE, v |-> 0]
  ELSE IF dc.debito # 0 \/ dc.credito # 0
       THEN [ok |-> TRUE, v |-> dc.credito - dc.debito]
  ELSE p

\* valor, or credito - debito when valor is 0 and one of them is not
escolher_valor(p, dc) ==
  IF ~p.ok THEN [ok |-> FALSE, v |-> 0]
  ELSE IF p.v # 0 THEN p
  ELSE IF ~dc.ok THEN [ok |-> FALSE, v |-> 0]
  ELSE IF dc.debito # 0 \/ dc.credito # 0
       THEN [ok |-> TRUE, v |-> dc.credito - dc.debito]
  ELSE [ok |-> TRUE, v |-> 0]

\* the amount of one bank row: [ok, v]
valor_itau(linha) ==
  escolher_valor(parse_numero_br(celula_valor_itau(linha)),
                 debito_credito(linha, Len(linha)))

ExtratoVazio == [erro |-> "", entradas |-> 0, saidas |-> 0, resultado |-> 0,
                 movimentos |-> <<>>]
ExtratoErro(e) == [erro |-> e, entradas |-> 0, saidas |-> 0, resultado |-> 0,
                   movimentos |-> <<>>]

\* one row of the loop of carregar_extrato_itau_upload
passo_itau(acc, linha, descricao, val) ==
  IF acc.erro # "" THEN acc
  ELSE IF eh_saldo_itau(normalizar_texto(descricao)) THEN acc
  ELSE IF ~val.ok THEN ExtratoErro("ValueError")
  ELSE [erro |-> "",
        entradas |-> IF val.v > 0 THEN acc.entradas + val.v ELSE acc.entradas,
        saidas |-> IF val.v < 0 THEN acc.saidas + val.v ELSE acc.saidas,
        resultado |-> 0,
        movimentos |-> Append(acc.movimentos,
                         [data |-> data_linha(linha),
                          descricao |-> descricao,
                          valor |-> val.v,
                          conta |-> "Itau"])]

\* the loop of carregar_extrato_itau_upload over the first i rows
RECURSIVE laco_itau(_, _)
laco_itau(linhas, i) ==
  IF i = 0 THEN ExtratoVazio
  ELSE passo_itau(laco_itau(linhas, i - 1), linhas[i],
                  extrair_descricao_linha(linhas[i]), valor_itau(linhas[i]))

\* a faulty variant: the exits total is subtracted
fechar_extrato_subtraindo(acc) ==
  IF acc.erro # "" THEN acc
  ELSE [acc EXCEPT !.resultado = acc.entradas - acc.saidas]

\* resultado = entradas + saidas, after the loop
fechar_extrato(acc) ==
  IF acc.erro # "" THEN acc
  ELSE [acc EXCEPT !.resultado = acc.entradas + acc.saidas]

ler_e_processar_itau(lido) ==
  IF ~lido.ok THEN ExtratoErro("RuntimeError")
  ELSE fechar_extrato(laco_itau(lido.linhas, Len(lido.linhas)))

carregar_extrato_itau_upload(uploaded_file) ==
  ler_e_processar_itau(ler_arquivo_tabela_upload(uploaded_file))

eh_saldo_pagseguro(desc_norm) ==
  contains(<<"S", "A", "L", "D", "O", " ", "D", "O", " ", "D", "I", "A">>, desc_norm) \/ contains(<<"S", "A", "L", "D", "O", " ", "D", "I", "A">>, desc_norm)

celula_entrada(linha) ==
  pyor(pyor(pyor(get(linha, <<"E", "n", "t", "r", "a", "d", "a", "s">>), get(linha, <<"E", "N", "T", "R", "A", "D", "A", "S">>)),
            get(linha, <<"e", "n", "t", "r", "a", "d", "a", "s">>)),
       PyNum(0))

celula_saida(linha) ==
  pyor(pyor(pyor(pyor(get(linha, <<"S", "a", "i", "d", "a", "s">>), get(linha, <<"S", "A", "I", "D", "A", "S">>)),
                 get(linha, <<"S", "a", "i'", "d", "a", "s">>)),
            get(linha, <<"s", "a", "i'", "d", "a", "s">>)),
       PyNum(0))

abs(x) == IF x < 0 THEN 0 - x ELSE x

\* a faulty variant: the field is taken with its sign
nao_zero_sem_abs(x) == x

\* if entrada != 0: ent = abs(entrada)
nao_zero_abs(x) == IF x # 0 THEN abs(x) ELSE 0

\* one row of the loop of carregar_extrato_pagseguro_upload
passo_pagseguro(acc, linha, descricao, entrada, saida) ==
  IF acc.erro # "" THEN acc
  ELSE IF eh_saldo_pagseguro(normalizar_texto(descricao)) THEN acc
  ELSE IF ~entrada.ok \/ ~saida.ok THEN ExtratoErro("ValueError")
  ELSE [erro |-> "",
        entradas |-> acc.entradas + nao_zero_abs(entrada.v),
        saidas |-> acc.saidas - nao_zero_abs(saida.v),
        resultado |-> 0,
        movimentos |-> Append(acc.movimentos,
                         [data |-> data_linha(linha),
                          descricao |-> descricao,
                          valor |-> nao_zero_abs(entrada.v) - nao_zero_abs(saida.v),
                          conta |-> "PagSeguro"])]

\* the loop of carregar_extrato_pagseguro_upload over the first i rows
RECURSIVE laco_pagseguro(_, _)
laco_pagseguro(linhas, i) ==
  IF i = 0 THEN ExtratoVazio
  ELSE passo_pagseguro(laco_pagseguro(linhas, i - 1), linhas[i],
                       extrair_descricao_linha(linhas[i]),
                       parse_numero_br(celula_entrada(linhas[i])),
                       parse_numero_br(celula_saida(linhas[i])))

ler_e_processar_pagseguro(lido) ==
  IF ~lido.ok THEN ExtratoErro("RuntimeError")
  ELSE fechar_extrato(laco_pagseguro(lido.linhas, Len(lido.linhas)))

carregar_extrato_pagseguro_upload(uploaded_file) ==
  ler_e_processar_pagseguro(ler_arquivo_tabela_upload(uploaded_file))

(***************************************************************************)
(* The command-line program (fechamento_tempero.py).  Its parse_numero_br, *)
(* normalizar_texto and extrair_descricao_linha are the same statements as *)
(* the app's; its adapters and its classifier are written out here.  The   *)
(* adapters are given the rows that ler_arquivo_tabela returned.           *)
(***************************************************************************)
\* the tests of the debit/credit loop of carregar_extrato_itau
\* a faulty variant: only the names with a sign count as debit columns
eh_debito_cli_so_com_sinal(kl) ==
  contains(<<"D", "E", "B", "I", "T", "O", "(", "-", ")">>, kl) \/ contains(<<"D", "E", "B", "I", "T", "O", " ", "(", "+", ")">>, kl)

eh_debito_cli(kl) ==
  contains(<<"D", "E", "B", "I", "T", "O">>, kl) \/ contains(<<"D", "E", "B", "I", "T", "O", "(", "-", ")">>, kl) \/ contains(<<"D", "E", "B", "I", "T", "O", " ", "(", "+", ")">>, kl)

eh_credito_cli(kl) ==
  contains(<<"C", "R", "E", "D", "I", "T", "O">>, kl) \/ contains(<<"C", "R", "E", "D", "I", "T", "O", "(", "+", ")">>, kl) \/ contains(<<"C", "R", "E", "D", "I", "T", "O", " ", "(", "+", ")">>, kl)

passo_debito_credito_cli(ant, kl, p) ==
  IF ~ant.ok THEN ant
  ELSE IF (eh_debito_cli(kl) \/ eh_credito_cli(kl)) /\ ~p.ok
       THEN [ok |-> FALSE, debito |-> 0, credito |-> 0]
  ELSE [ok |-> TRUE,
        debito |-> IF eh_debito_cli(kl) THEN p.v ELSE ant.debito,
        credito |-> IF eh_credito_cli(kl) THEN p.v ELSE ant.credito]

RECURSIVE debito_credito_cli(_, _)
debito_credito_cli(linha, i) ==
  IF i = 0 THEN [ok |-> TRUE, debito |-> 0, credito |-> 0]
  ELSE passo_debito_credito_cli(debito_credito_cli(linha, i - 1),
                                normalizar_texto(PyStr(strip(linha[i].k))),
                                parse_numero_br(linha[i].v))

\* valor of one row of carregar_extrato_itau: [ok, v]
valor_itau_cli(p, linha) ==
  IF ~p.ok THEN [ok |-> FALSE, v |-> 0]
  ELSE IF p.v # 0 THEN p
  ELSE IF ~debito_credito_cli(linha, Len(linha)).ok THEN [ok |-> FALSE, v |-> 0]
  ELSE IF debito_credito_cli(linha, Len(linha)).debito # 0
          \/ debito_credito_cli(linha, Len(linha)).credito # 0
       THEN [ok |-> TRUE,
             v |-> debito_credito_cli(linha, Len(linha)).credito
                     - debito_credito_cli(linha, Len(linha)).debito]
  ELSE [ok |-> TRUE, v |-> 0]

\* one row of the loop of carregar_extrato_itau
passo_itau_cli(acc, linha, val) ==
  IF acc.erro # "" THEN acc
  ELSE IF ~val.ok THEN ExtratoErro("ValueError")
  ELSE [erro |-> "",
        entradas |-> IF val.v > 0 THEN acc.entradas + val.v ELSE acc.entradas,
        saidas |-> IF val.v < 0 THEN acc.saidas + val.v ELSE acc.saidas,
        resultado |-> 0,
        movimentos |-> Append(acc.movimentos,
                         [data |-> pyor(pyor(get(linha, <<"D", "a", "t", "a">>), get(linha, <<"D", "A", "T", "A">>)),
                                        get(linha, <<"d", "a", "t", "a">>)),
                          descricao |-> extrair_descricao_linha(linha),
                          valor |-> val.v,
                          conta |-> "Itau"])]

RECURSIVE laco_itau_cli(_, _)
laco_itau_cli(linhas, i) ==
  IF i = 0 THEN ExtratoVazio
  ELSE passo_itau_cli(laco_itau_cli(linhas, i - 1), linhas[i],
         valor_itau_cli(
           parse_numero_br(pyor(pyor(pyor(pyor(get(linhas[i], <<"V", "a", "l", "o", "r">>),
                                               get(linhas[i], <<"V", "A", "L", "O", "R">>)),
                                          get(linhas[i], <<"v", "a", "l", "o", "r">>)),
                                     get(linhas[i], <<"V", "a", "l", "o", "r", " ", "(", "R", "$", ")">>)),
                                PyNum(0))),
           linhas[i]))

\* resultado = entradas + saidas
fechar_extrato_cli(acc) ==
  IF acc.erro # "" THEN acc
  ELSE [acc EXCEPT !.resultado = acc.entradas + acc.saidas]

carregar_extrato_itau(linhas) == fechar_extrato_cli(laco_itau_cli(linhas, Len(linhas)))

\* one row of the loop of carregar_extrato_pagseguro
passo_pagseguro_cli(acc, linha, entrada, saida) ==
  IF acc.erro # "" THEN acc
  ELSE IF ~entrada.ok \/ ~saida.ok THEN ExtratoErro("ValueError")
  ELSE [erro |-> "",
        entradas |-> acc.entradas + (IF entrada.v # 0 THEN abs(entrada.v) ELSE 0),
        saidas |-> acc.saidas - (IF saida.v # 0 THEN abs(saida.v) ELSE 0),
        resultado |-> 0,
        movimentos |-> Append(acc.movimentos,
                         [data |-> pyor(pyor(get(linha, <<"D", "a", "t", "a">>), get(linha, <<"D", "A", "T", "A">>)),
                                        get(linha, <<"d", "a", "t", "a">>)),
                          descricao |-> extrair_descricao_linha(linha),
                          valor |-> (IF entrada.v # 0 THEN abs(entrada.v) ELSE 0)
                                      - (IF saida.v # 0 THEN abs(saida.v) ELSE 0),
                          conta |-> "PagSeguro"])]

RECURSIVE laco_pagseguro_cli(_, _)
laco_pagseguro_cli(linhas, i) ==
  IF i = 0 THEN ExtratoVazio
  ELSE passo_pagseguro_cli(laco_pagseguro_cli(linhas, i - 1), linhas[i],
         parse_numero_br(pyor(pyor(pyor(get(linhas[i], <<"E", "n", "t", "r", "a", "d", "a", "s">>),
                                        get(linhas[i], <<"E", "N", "T", "R", "A", "D", "A", "S">>)),
                                   get(linhas[i], <<"e", "n", "t", "r", "a", "d", "a", "s">>)),
                              PyNum(0))),
         parse_numero_br(pyor(pyor(pyor(pyor(get(linhas[i], <<"S", "a", "i", "d", "a", "s">>),
                                             get(linhas[i], <<"S", "A", "I", "D", "A", "S">>)),
                                        get(linhas[i], <<"S", "a", "i'", "d", "a", "s">>)),
                                   get(linhas[i], <<"s", "a", "i'", "d", "a", "s">>)),
                              PyNum(0))))

carregar_extrato_pagseguro(linhas) ==
  fechar_extrato_cli(laco_pagseguro_cli(linhas, Len(linhas)))

\* classificar_categoria of the command-line program: no rule table
categoria_cli(desc, valor) ==
  IF contains(<<"A", "N", "T", "I", "N", "S", "E", "C", "T">>, desc) THEN "Dedetizacao / Controle de Pragas"
  ELSE IF \/ contains(<<"C", "I", "A", " ", "E", "S", "T", "A", "D", "U", "A", "L", " ", "D", "E", " ", "D", "I", "S", "T">>, desc)
          \/ contains(<<"C", "E", "E", "E">>, desc)
          \/ contains(<<"E", "N", "E", "R", "G", "I", "A", " ", "E", "L", "E", "T", "R", "I", "C", "A">>, desc) THEN "Energia Eletrica"
  ELSE IF \/ contains(<<"R", "E", "C", "H", " ", "C", "O", "N", "T", "A", "B", "I", "L", "I", "D", "A", "D", "E">>, desc)
          \/ contains(<<"R", "E", "C", "H", " ", "C", "O", "N", "T">>, desc) THEN "Contabilidade e RH"
  ELSE IF \/ contains(<<"B", "U", "S", "I", "N", "E", "S", "S", " ", " ", " ", " ", " ", " ", "0", "5", "0", "3", "-", "2", "8", "5", "2">>, desc)
          \/ contains(<<"B", "U", "S", "I", "N", "E", "S", "S", " ", "0", "5", "0", "3", "-", "2", "8", "5", "2">>, desc)
          \/ contains(<<"I", "T", "A", "U", " ", "U", "N", "I", "B", "A", "N", "C", "O", " ", "H", "O", "L", "D", "I", "N", "G", " ", "S", ".", "A", ".">>, desc)
          \/ contains(<<"C", "A", "R", "T", "A", "O">>, desc)
          \/ contains(<<"C", "A", "R", "T", "A~", "O">>, desc) THEN "Fatura Cartao"
  ELSE IF \/ contains(<<"A", "P", "L", "I", "C", "A", "C", "A", "O">>, desc)
          \/ contains(<<"A", "P", "L", "I", "C", "A", "C,", "A~", "O">>, desc)
          \/ contains(<<"C", "D", "B">>, desc)
          \/ contains(<<"C", "R", "E", "D", "B", "A", "N", "C", "R", "F">>, desc) THEN "Investimentos (Aplicacoes)"
  ELSE IF \/ contains(<<"R", "E", "N", "D", " ", "P", "A", "G", "O", " ", "A", "P", "L", "I", "C">>, desc)
          \/ contains(<<"R", "E", "N", "D", "I", "M", "E", "N", "T", "O", " ", "A", "P", "L", "I", "C">>, desc)
          \/ contains(<<"R", "E", "N", "D", " ", "A", "P", "L", "I", "C">>, desc)
          \/ contains(<<"R", "E", "N", "D", "I", "M", "E", "N", "T", "O">>, desc) THEN "Rendimentos de Aplicacoes"
  ELSE IF \/ contains(<<"Z", "O", "O", "P">>, desc)
          \/ contains(<<"A", "L", "U", "G", "U", "E", "L">>, desc) THEN "Aluguel Comercial"
  ELSE IF \/ contains(<<"M", "O", "T", "O", "B", "O", "Y">>, desc)
          \/ contains(<<"E", "N", "T", "R", "E", "G", "A">>, desc) THEN "Motoboy / Entregas"
  ELSE IF \/ contains(<<"C", "A", "R", "O", "L", "I", "N", "E">>, desc)
          \/ contains(<<"V", "E", "R", "O", "N", "I", "C", "A">>, desc)
          \/ contains(<<"V", "E", "R", "O", "N", "I", "C", "A", " ", "D", "A", " ", "S", "I", "L", "V", "A", " ", "C", "A", "R", "D", "O", "S", "O">>, desc)
          \/ contains(<<"V", "E", "R", "O^", "N", "I", "C", "A">>, desc)
          \/ contains(<<"E", "V", "E", "L", "L", "Y", "N">>, desc)
          \/ contains(<<"S", "A", "L", "A", "R", "I", "O">>, desc)
          \/ contains(<<"S", "A", "L", "A'", "R", "I", "O">>, desc)
          \/ contains(<<"F", "O", "L", "H", "A">>, desc) THEN "Folha de Pagamento"
  ELSE IF \/ contains(<<"A", "N", "A", " ", "P", "A", "U", "L", "A">>, desc)
          \/ contains(<<"N", "U", "T", "R", "I", "C", "I", "O", "N", "I", "S", "T", "A">>, desc) THEN "Nutricionista"
  ELSE IF \/ contains(<<"D", "A", "R", "F">>, desc)
          \/ contains(<<"G", "P", "S">>, desc)
          \/ contains(<<"F", "G", "T", "S">>, desc)
          \/ contains(<<"I", "N", "S", "S">>, desc)
          \/ contains(<<"S", "I", "M", "P", "L", "E", "S", " ", "N", "A", "C", "I", "O", "N", "A", "L">>, desc)
          \/ contains(<<"I", "M", "P", "O", "S", "T", "O">>, desc) THEN "Impostos e Encargos"
  ELSE IF /\ \/ contains(<<"T", "R", "A", "N", "S", "F", "E", "R", "E", "N", "C", "I", "A">>, desc)
             \/ contains(<<"T", "R", "A", "N", "S", "F", "E", "R", "E^", "N", "C", "I", "A">>, desc)
             \/ contains(<<"P", "I", "X">>, desc)
          /\ \/ contains(<<"R", "I", "C", "A", "R", "D", "O">>, desc)
             \/ contains(<<"L", "I", "Z", "I", "A", "N", "I">>, desc)
             \/ contains(<<"L", "I", "Z", "I">>, desc) THEN "Transferencia Interna / Socios"
  ELSE IF valor > 0 THEN "Vendas / Receitas"
  ELSE IF valor < 0 THEN "Fornecedores e Insumos"
  ELSE "A Classificar"

classificar_categoria_cli(mov) ==
  categoria_cli(normalizar_texto(mov.descricao), mov.valor)

(***************************************************************************)
(* The persisted rule table (regras_categorias.json) and carregar_regras.  *)
(* The file is [tipo |-> "ausente" | "invalido" | "nao_dict" | "dict",     *)
(* regras |-> the mapping when tipo = "dict"]: missing, not JSON, JSON     *)
(* that is no object, or a JSON object.  regras is the parsed value, if any. *)
(***************************************************************************)
\* a faulty variant: whatever json.load returned is handed back
carregar_regras_sem_isinstance(arq) ==
  IF arq.tipo \in {"dict", "nao_dict"} THEN arq.regras ELSE <<>>

carregar_regras(arq) == IF arq.tipo = "dict" THEN arq.regras ELSE <<>>

\* salvar_regras: the whole table replaces the file
salvar_regras(regras) == [tipo |-> "dict", regras |-> regras]

(***************************************************************************)
(* The custom category list (categorias_personalizadas.json), a file       *)
(* [tipo |-> "ausente" | "lista", lista |-> the JSON list], and the        *)
(* options of the category editor in tab 3.                                *)
(***************************************************************************)
carregar_categorias_personalizadas(arq) ==
  IF arq.tipo = "lista" THEN arq.lista ELSE <<>>

salvar_categorias_personalizadas(lista) == [tipo |-> "lista", lista |-> lista]

categorias_padrao ==
  << CatVendas, CatFornecedores, CatFolha, CatAluguel, CatContabilidade,
     CatDedetizacao, CatEnergia, CatMotoboy, CatNutricionista, CatImpostos,
     CatInvestimentos, CatRendimentos, CatCartao, CatTransferencia,
     CatAClassificar >>

categorias_possiveis(arq) ==
  categorias_padrao \o carregar_categorias_personalizadas(arq)

\* "Adicionar categoria": the file after the click
categorias_apos_adicionar(arq, nova_cat) ==
  IF nova_cat # "" /\ ~in_list(nova_cat, categorias_possiveis(arq))
  THEN salvar_categorias_personalizadas(
         Append(carregar_categorias_personalizadas(arq), nova_cat))
  ELSE arq

(***************************************************************************)
(* Dates: pd.to_datetime(..., errors="coerce") reduced to the month        *)
(* YYYY*100+MM, 0 for NaT.  Text dates are read as DD/MM/YYYY; other text  *)
(* is NaT.                                                                 *)
(***************************************************************************)
NaT == 0

mes_de_texto(s) ==
  IF /\ Len(s) = 10 /\ s[3] = "/" /\ s[6] = "/"
     /\ AllDigits(SubSeq(s, 1, 2)) /\ AllDigits(SubSeq(s, 4, 5))
     /\ AllDigits(SubSeq(s, 7, 10))
     /\ NatOf(SubSeq(s, 1, 2)) \in 1..31 /\ NatOf(SubSeq(s, 4, 5)) \in 1..12
  THEN NatOf(SubSeq(s, 7, 10)) * 100 + NatOf(SubSeq(s, 4, 5))
  ELSE NaT

to_datetime(d) ==
  CASE d.t = "date" -> d.ym
    [] d.t = "str" -> mes_de_texto(strip(d.s))
    [] d.t = "num" -> 197001
    [] OTHER -> NaT

\* meses_extratos: the months of the statement movements that carry a date
meses_extratos(movs) ==
  {to_datetime(movs[i].data) : i \in {j \in 1..Len(movs) : truthy(movs[j].data)}}
    \ {NaT}

(***************************************************************************)
(* Cash ledger rows: [Data, Descricao, Tipo, Valor], cells                 *)
(***************************************************************************)
TipoEntrada == PyStr(<<"E", "n", "t", "r", "a", "d", "a">>)
TipoSaida == PyStr(<<"S", "a", "i'", "d", "a">>)

\* df["Valor"] > 0
valor_positivo(row) == row.Valor.t = "num" /\ row.Valor.n > 0

\* df_din_validos_calc: the ledger rows of the statements' months with Valor > 0
dinheiro_validos(df_caixa, meses) ==
  IF df_caixa # <<>> /\ meses # {}
  THEN SelectSeq(df_caixa,
         LAMBDA r : to_datetime(r.Data) \in meses /\ valor_positivo(r))
  ELSE <<>>

RECURSIVE soma_tipo(_, _)
soma_tipo(rows, tipo) ==
  IF rows = <<>> THEN 0
  ELSE (IF Head(rows).Tipo = tipo THEN Head(rows).Valor.n ELSE 0)
         + soma_tipo(Tail(rows), tipo)

\* the movement built from one valid ledger row
movimento_dinheiro(row) ==
  [data |-> row.Data,
   descricao |-> row.Descricao,
   valor |-> IF pystr(row.Tipo) = <<"S", "a", "i'", "d", "a">> THEN 0 - row.Valor.n ELSE row.Valor.n,
   conta |-> "Dinheiro"]

movimentos_dinheiro(rows) == [i \in 1..Len(rows) |-> movimento_dinheiro(rows[i])]

\* movimentos_cat / df_mov: one classified row per movement
classificar_movimentos(movimentos, REGRAS) ==
  [i \in 1..Len(movimentos) |->
     [Data |-> movimentos[i].data,
      Conta |-> movimentos[i].conta,
      Descricao |-> movimentos[i].descricao,
      Categoria |-> classificar_categoria(movimentos[i], REGRAS),
      Valor |-> movimentos[i].valor]]

(***************************************************************************)
(* The closing computation of one script run ("Calculos principais").      *)
(* NoFile is an empty uploader.  The result holds every variable the run   *)
(* assigns; excecao names an exception that no handler catches.            *)
(***************************************************************************)
\* datetime.strptime(parte, "%Y-%m") succeeds: four digits, a dash and a month
\* written 01..12 or 1..9
strptime_ano_mes_ok(parte) ==
  /\ Len(parte) \in {6, 7}
  /\ AllDigits(SubSeq(parte, 1, 4))
  /\ NatOf(SubSeq(parte, 1, 4)) >= 1
  /\ parte[5] = "-"
  /\ AllDigits(SubSeq(parte, 6, Len(parte)))
  /\ NatOf(SubSeq(parte, 6, Len(parte))) \in 1..12
  /\ (Len(parte) = 6 => parte[6] # "0")

\* s[:n]
prefixo(s, n) == SubSeq(s, 1, IF Len(s) < n THEN Len(s) ELSE n)

\* get_ano_mes: the first seven characters of the period name when they parse
\* as a year and a month, None otherwise
get_ano_mes(nome_periodo) ==
  IF nome_periodo = <<>> THEN PyNone
  ELSE IF strptime_ano_mes_ok(prefixo(strip(nome_periodo), 7))
       THEN PyStr(prefixo(strip(nome_periodo), 7))
       ELSE PyNone

\* datas.dt.strftime("%Y-%m") of one ledger date; NaT gives NaN
strftime_ano_mes(ym) ==
  IF ym = NaT THEN PyNaN
  ELSE PyStr(NatText(ym \div 100) \o <<"-">>
               \o (IF ym % 100 < 10 THEN <<"0">> ELSE <<>>) \o NatText(ym % 100))

\* mask: the ledger rows whose month is ano_mes_ref
no_mes(row, ano_mes_ref) == strftime_ano_mes(to_datetime(row.Data)) = ano_mes_ref

\* df_dinheiro_periodo (lines 1112-1122): the rows the editor starts from
dinheiro_periodo(df_caixa, ano_mes_ref) ==
  IF df_caixa # <<>> /\ ano_mes_ref # PyNone
  THEN SelectSeq(df_caixa, LAMBDA r : no_mes(r, ano_mes_ref))
  ELSE <<>>

\* the blank row the editor shows for an empty month (lines 1395-1406)
LinhaEmBranco ==
  [Data |-> PyDate(202611), Descricao |-> PyStr(<<>>), Tipo |-> PyStr(<<"E", "n", "t", "r", "a", "d", "a">>),
   Valor |-> PyNum(0)]

editor_inicial(periodo) == IF periodo = <<>> THEN << LinhaEmBranco >> ELSE periodo

\* df_din_limpo (lines 1435-1443): rows with neither amount nor description go
linha_vazia(row) ==
  /\ (IF row.Valor.t = "num" THEN row.Valor.n = 0 ELSE isna(row.Valor))
  /\ (IF row.Descricao.t = "str" THEN strip(row.Descricao.s) = <<>>
      ELSE isna(row.Descricao))
limpar(df_ui) == SelectSeq(df_ui, LAMBDA r : ~linha_vazia(r))

\* df_outros_meses (lines 1453-1458)
outros_meses(df_global, ano_mes_ref) ==
  IF ano_mes_ref # PyNone
  THEN SelectSeq(df_global, LAMBDA r : ~no_mes(r, ano_mes_ref))
  ELSE <<>>

\* df_novo_global (lines 1460-1462)
novo_global(df_global, ano_mes_ref, df_din_limpo) ==
  outros_meses(df_global, ano_mes_ref) \o df_din_limpo

NoFile == [up |-> FALSE, suffix |-> <<>>, raw |-> <<>>]

ContasZero == [ent_itau |-> 0, sai_itau |-> 0, res_itau |-> 0,
               ent_pag |-> 0, sai_pag |-> 0, res_pag |-> 0,
               entradas_dinheiro_periodo |-> 0, saidas_dinheiro_periodo |-> 0]

\* the state after lines 1128-1144, before the computation
FechamentoInicial(regras_mem) ==
  [dados_carregados |-> FALSE, mensagem_erro |-> "", excecao |-> "",
   excel_buffer |-> FALSE, REGRAS_CATEGORIA |-> regras_mem,
   contas |-> ContasZero,
   entradas_totais |-> 0, saidas_totais |-> 0, resultado_consolidado |-> 0,
   saldo_final |-> 0, df_mov |-> <<>>, dados_cat |-> {}]

MsgSaldoInvalido == "Saldo inicial invalido. Use formato 1234,56 ou 1234.56."
MsgFormato == "Formato nao suportado. Use .csv ou .xlsx."

\* entradas_cat / saidas_cat / dados_cat: per category, the sum of the positive
\* and the sum of the negative amounts; a category appears when one of its rows
\* has a non-zero amount.  dados_cat is kept as a set (the code sorts it by label).
RECURSIVE soma_categoria(_, _, _)
soma_categoria(df, cat, positivos) ==
  IF df = <<>> THEN 0
  ELSE (IF Head(df).Categoria = cat
           /\ (IF positivos THEN Head(df).Valor > 0 ELSE Head(df).Valor < 0)
        THEN Head(df).Valor ELSE 0)
       + soma_categoria(Tail(df), cat, positivos)

\* a faulty variant: every amount of a category is added to its entries
resumo_categorias_sem_sinal(df) ==
  {[Categoria |-> cat,
    Entradas |-> soma_categoria(df, cat, TRUE) + soma_categoria(df, cat, FALSE),
    Saidas |-> 0] :
     cat \in {df[i].Categoria : i \in {j \in 1..Len(df) : df[j].Valor # 0}}}

resumo_categorias(df) ==
  {[Categoria |-> cat,
    Entradas |-> soma_categoria(df, cat, TRUE),
    Saidas |-> soma_categoria(df, cat, FALSE)] :
     cat \in {df[i].Categoria : i \in {j \in 1..Len(df) : df[j].Valor # 0}}}

\* the characters of the category labels in ascending code point order, as
\* Python compares strings
CaracteresEmOrdem ==
  << " ", "(", ")", "/",
     "A", "B", "C", "D", "E", "F", "G", "H", "I", "J", "K", "L", "M",
     "N", "O", "P", "Q", "R", "S", "T", "U", "V", "W", "X", "Y", "Z",
     "a", "b", "c", "d", "e", "f", "g", "h", "i", "j", "k", "l", "m",
     "n", "o", "p", "q", "r", "s", "t", "u", "v", "w", "x", "y", "z",
     "A!", "A'", "A^", "A~", "C,", "E'", "E^", "I'", "O'", "O^", "O~", "U'",
     "a!", "a'", "a^", "a~", "c,", "e'", "e^", "i'", "o'", "o^", "o~", "u'" >>

ord(c) == CHOOSE i \in 1..Len(CaracteresEmOrdem) : CaracteresEmOrdem[i] = c

\* a < b for two str values
RECURSIVE str_lt(_, _)
str_lt(a, b) ==
  IF b = <<>> THEN FALSE
  ELSE IF a = <<>> THEN TRUE
  ELSE IF Head(a) = Head(b) THEN str_lt(Tail(a), Tail(b))
  ELSE ord(Head(a)) < ord(Head(b))

\* the text of a category label
texto_categoria(cat) ==
  CASE cat = CatDedetizacao -> <<"D", "e", "d", "e", "t", "i", "z", "a", "c,", "a~", "o", " ", "/", " ", "C", "o", "n", "t", "r", "o", "l", "e", " ", "d", "e", " ", "P", "r", "a", "g", "a", "s">>
    [] cat = CatEnergia -> <<"E", "n", "e", "r", "g", "i", "a", " ", "E", "l", "e'", "t", "r", "i", "c", "a">>
    [] cat = CatContabilidade -> <<"C", "o", "n", "t", "a", "b", "i", "l", "i", "d", "a", "d", "e", " ", "e", " ", "R", "H">>
    [] cat = CatCartao -> <<"F", "a", "t", "u", "r", "a", " ", "C", "a", "r", "t", "a~", "o">>
    [] cat = CatInvestimentos -> <<"I", "n", "v", "e", "s", "t", "i", "m", "e", "n", "t", "o", "s", " ", "(", "A", "p", "l", "i", "c", "a", "c,", "o~", "e", "s", ")">>
    [] cat = CatRendimentos -> <<"R", "e", "n", "d", "i", "m", "e", "n", "t", "o", "s", " ", "d", "e", " ", "A", "p", "l", "i", "c", "a", "c,", "o~", "e", "s">>
    [] cat = CatAluguel -> <<"A", "l", "u", "g", "u", "e", "l", " ", "C", "o", "m", "e", "r", "c", "i", "a", "l">>
    [] cat = CatMotoboy -> <<"M", "o", "t", "o", "b", "o", "y", " ", "/", " ", "E", "n", "t", "r", "e", "g", "a", "s">>
    [] cat = CatFolha -> <<"F", "o", "l", "h", "a", " ", "d", "e", " ", "P", "a", "g", "a", "m", "e", "n", "t", "o">>
    [] cat = CatNutricionista -> <<"N", "u", "t", "r", "i", "c", "i", "o", "n", "i", "s", "t", "a">>
    [] cat = CatImpostos -> <<"I", "m", "p", "o", "s", "t", "o", "s", " ", "e", " ", "E", "n", "c", "a", "r", "g", "o", "s">>
    [] cat = CatTransferencia -> <<"T", "r", "a", "n", "s", "f", "e", "r", "e^", "n", "c", "i", "a", " ", "I", "n", "t", "e", "r", "n", "a", " ", "/", " ", "S", "o'", "c", "i", "o", "s">>
    [] cat = CatVendas -> <<"V", "e", "n", "d", "a", "s", " ", "/", " ", "R", "e", "c", "e", "i", "t", "a", "s">>
    [] cat = CatFornecedores -> <<"F", "o", "r", "n", "e", "c", "e", "d", "o", "r", "e", "s", " ", "e", " ", "I", "n", "s", "u", "m", "o", "s">>
    [] cat = CatAClassificar -> <<"A", " ", "C", "l", "a", "s", "s", "i", "f", "i", "c", "a", "r">>
    [] cat = "Custom Category" -> <<"C", "u", "s", "t", "o", "m", " ", "C", "a", "t", "e", "g", "o", "r", "y">>
    [] cat = "" -> <<>>

\* sorted(set(...)) of category labels
RECURSIVE sorted(_)
sorted_desde(menor, cats) == << menor >> \o sorted(cats \ {menor})
sorted(cats) ==
  IF cats = {} THEN <<>>
  ELSE sorted_desde(CHOOSE c \in cats :
                      \A d \in cats \ {c} :
                        str_lt(texto_categoria(c), texto_categoria(d)),
                    cats)

\* a faulty variant: every category of the frame gets a key
chaves_categorias_de_todas_as_linhas(df) ==
  {df[i].Categoria : i \in 1..Len(df)}

\* the keys of entradas_cat and saidas_cat after the loop over df_mov
chaves_categorias(df) ==
  {df[i].Categoria : i \in {j \in 1..Len(df) : df[j].Valor > 0}}
    \cup {df[i].Categoria : i \in {j \in 1..Len(df) : df[j].Valor < 0}}

categorias_calc(df) == sorted(chaves_categorias(df))

\* dados_cat as the list the code builds, one record per category in the
\* order of categorias_calc
dados_cat_de(df, cats) ==
  [i \in 1..Len(cats) |->
     [Categoria |-> cats[i],
      Entradas |-> soma_categoria(df, cats[i], TRUE),
      Saidas |-> soma_categoria(df, cats[i], FALSE)]]

dados_cat(df) == dados_cat_de(df, categorias_calc(df))

\* lines 1195-1276: cash totals, consolidated totals, classified movements and
\* the summary by category
fechamento_df(saldo, REGRAS, ri, rp, df_mov, ent_din, sai_din) ==
  [dados_carregados |-> TRUE, mensagem_erro |-> "", excecao |-> "",
   excel_buffer |-> TRUE, REGRAS_CATEGORIA |-> REGRAS,
   contas |-> [ent_itau |-> ri.entradas, sai_itau |-> ri.saidas,
               res_itau |-> ri.resultado,
               ent_pag |-> rp.entradas, sai_pag |-> rp.saidas,
               res_pag |-> rp.resultado,
               entradas_dinheiro_periodo |-> ent_din,
               saidas_dinheiro_periodo |-> sai_din],
   entradas_totais |-> ri.entradas + rp.entradas + ent_din,
   saidas_totais |-> ri.saidas + rp.saidas - sai_din,
   resultado_consolidado |->
     (ri.entradas + rp.entradas + ent_din) + (ri.saidas + rp.saidas - sai_din),
   saldo_final |->
     saldo.v + (ri.entradas + rp.entradas + ent_din)
             + (ri.saidas + rp.saidas - sai_din),
   df_mov |-> df_mov,
   dados_cat |-> resumo_categorias(df_mov)]

fechamento_totais(saldo, REGRAS, ri, rp, movimentos, ent_din, sai_din) ==
  fechamento_df(saldo, REGRAS, ri, rp, classificar_movimentos(movimentos, REGRAS),
                ent_din, sai_din)

fechamento_dinheiro(saldo, REGRAS, ri, rp, movimentos_extratos, validos) ==
  fechamento_totais(saldo, REGRAS, ri, rp,
                    movimentos_extratos \o movimentos_dinheiro(validos),
                    soma_tipo(validos, TipoEntrada),
                    soma_tipo(validos, TipoSaida))

\* the try block from the two adapter calls on; an exception that is not a
\* RuntimeError leaves the block uncaught
fechamento_extratos(ini, saldo, REGRAS, ri, rp, df_caixa) ==
  IF ri.erro = "RuntimeError" THEN [ini EXCEPT !.mensagem_erro = MsgFormato]
  ELSE IF ri.erro # "" THEN [ini EXCEPT !.excecao = ri.erro]
  ELSE IF rp.erro = "RuntimeError"
       THEN [ini EXCEPT !.contas = [ContasZero EXCEPT !.ent_itau = ri.entradas,
                                      !.sai_itau = ri.saidas,
                                      !.res_itau = ri.resultado],
                        !.mensagem_erro = MsgFormato]
  ELSE IF rp.erro # ""
       THEN [ini EXCEPT !.contas = [ContasZero EXCEPT !.ent_itau = ri.entradas,
                                      !.sai_itau = ri.saidas,
                                      !.res_itau = ri.resultado],
                        !.excecao = rp.erro]
  ELSE fechamento_dinheiro(saldo, REGRAS, ri, rp, ri.movimentos \o rp.movimentos,
         dinheiro_validos(df_caixa, meses_extratos(ri.movimentos \o rp.movimentos)))

fechamento_saldo(ini, saldo, itau, pag, arq_regras, df_caixa) ==
  IF ~saldo.ok THEN [ini EXCEPT !.mensagem_erro = MsgSaldoInvalido]
  ELSE fechamento_extratos(
         [ini EXCEPT !.REGRAS_CATEGORIA = carregar_regras(arq_regras)],
         saldo, carregar_regras(arq_regras),
         carregar_extrato_itau_upload(itau),
         carregar_extrato_pagseguro_upload(pag), df_caixa)

fechamento(itau, pag, saldo_input, arq_regras, df_caixa, regras_mem) ==
  IF itau = NoFile \/ pag = NoFile THEN FechamentoInicial(regras_mem)
  ELSE fechamento_saldo(FechamentoInicial(regras_mem),
                        parse_numero_br(PyStr(saldo_input)),
                        itau, pag, arq_regras, df_caixa)

(***************************************************************************)
(* "Salvar regras de categorizacao": the table after the loop over         *)
(* edited_df, starting from the table carregar_regras returned             *)
(***************************************************************************)
\* not desc / not cat for the cells of the editor
\* a faulty variant: only an empty description skips the row
regra_da_linha_sem_filtro_categoria(regras, desc, cat, desc_norm) ==
  IF ~truthy(desc) THEN regras
  ELSE IF has_key(regras, desc_norm)
          /\ regras[CHOOSE i \in 1..Len(regras) : regras[i].k = desc_norm].v = cat
       THEN regras
  ELSE dict_set(regras, desc_norm, cat)

\* a faulty variant: the row's rule starts a fresh table
regra_da_linha_tabela_nova(regras, desc, cat, desc_norm) ==
  IF ~truthy(desc) \/ cat = "" THEN regras
  ELSE << [k |-> desc_norm, v |-> cat] >>

\* one row of the loop
regra_da_linha(regras, desc, cat, desc_norm) ==
  IF ~truthy(desc) \/ cat = "" THEN regras
  ELSE IF has_key(regras, desc_norm)
          /\ regras[CHOOSE i \in 1..Len(regras) : regras[i].k = desc_norm].v = cat
       THEN regras
  ELSE dict_set(regras, desc_norm, cat)

RECURSIVE regras_apos_edicao(_, _)
regras_apos_edicao(regras, edited_df) ==
  IF edited_df = <<>> THEN regras
  ELSE regras_apos_edicao(
         regra_da_linha(regras, Head(edited_df).Descricao,
                        Head(edited_df).Categoria,
                        normalizar_texto(Head(edited_df).Descricao)),
         Tail(edited_df))

\* edited_df: df_mov with the editor's pending cell edits laid over it;
\* edicoes maps a row index to the category chosen for it
aplicar_edicoes(df_mov, edicoes) ==
  [i \in 1..Len(df_mov) |->
     IF i \in DOMAIN edicoes THEN [df_mov[i] EXCEPT !.Categoria = edicoes[i]]
     ELSE df_mov[i]]

SemEdicoes == [i \in {} |-> ""]

(***************************************************************************)
(* Bounds and input universes                                              *)
(***************************************************************************)
\* longest statement (data rows) drawn for the adapters
MaxLinhas == 2
\* longest rule table drawn for the classifier
MaxRegras == 2
\* rule commits in one session
MaxCommits == 1
\* pending cell edits in the category editor
MaxEdicoes == 1
\* files put into each uploader in one session
MaxCarregamentos == 1

\* longest text drawn for normalizar_texto over the short alphabet
MaxTexto == 3

SeqsUpTo(S, n) == UNION {[1..k -> S] : k \in 0..n}

CatCustom == "Custom Category"

NaN == PyNaN
D1 == PyStr(<<"0", "3", "/", "1", "1", "/", "2", "0", "2", "5">>)
D2 == PyStr(<<"0", "5", "/", "1", "1", "/", "2", "0", "2", "5">>)

\* bank statement, columns Data;Historico;Valor;Debito;Credito
CabecalhoItau ==
  << PyStr(<<"D", "a", "t", "a">>), PyStr(<<"H", "i", "s", "t", "o'", "r", "i", "c", "o">>), PyStr(<<"V", "a", "l", "o", "r">>),
     PyStr(<<"D", "e'", "b", "i", "t", "o">>), PyStr(<<"C", "r", "e'", "d", "i", "t", "o">>) >>
LinhasItau ==
  { << D1, PyStr(<<"V", "E", "N", "D", "A", " ", "B", "A", "L", "C", "A", "O">>), PyStr(<<"1", "0", "0", ",", "0", "0">>), NaN, NaN >>,
    << D1, PyStr(<<"E", "n", "e", "r", "g", "i", "a", " ", "E", "l", "e'", "t", "r", "i", "c", "a", " ", "C", "E", "E", "E">>), PyStr(<<"-", "5", "0", ",", "0", "0">>), NaN, NaN >>,
    << D1, PyStr(<<"T", "A", "R", "I", "F", "A">>), NaN, PyStr(<<"5", "0", ",", "0", "0">>), PyStr(<<"0">>) >>,
    << D1, PyStr(<<"C", "O", "M", "P", "R", "A">>), PyStr(<<"-", "8", "0", ",", "0", "0">>), PyStr(<<"3", "0", ",", "0", "0">>), NaN >>,
    << D1, PyStr(<<"D", "E", "P", "O", "S", "I", "T", "O">>), PyStr(<<"0">>), NaN, PyStr(<<"R", "$", " ", "1", ".", "2", "3", "4", ",", "5", "6">>) >>,
    << D1, PyStr(<<"S", "A", "L", "D", "O", " ", "D", "O", " ", "D", "I", "A">>), PyStr(<<"9", "9", "9", ",", "0", "0">>), NaN, NaN >>,
    << D1, PyStr(<<"S", "a", "l", "d", "o", " ", "t", "o", "t", "a", "l", " ", "d", "i", "s", "p", "o", "n", "i'", "v", "e", "l", " ", "d", "i", "a">>), PyStr(<<"a", "b", "c">>), NaN, NaN >>,
    << D1, PyStr(<<"P", "I", "X", " ", "J", "O", "A", "O">>), PyNum(2500), NaN, NaN >>,
    << D1, PyStr(<<"V", "E", "N", "D", "A">>), PyStr(<<"a", "b", "c">>), NaN, NaN >>,
    << D1, PyStr(<<"V", "E", "N", "D", "A">>), PyStr(<<"1", ",", "2", ",", "3">>), NaN, NaN >>,
    << D1, PyStr(<<"E", "S", "T", "O", "R", "N", "O">>), PyStr(<<"-">>), NaN, NaN >> }

\* bank statement whose amount column is named Valor (R$)
CabecalhoValorReais ==
  << PyStr(<<"D", "a", "t", "a">>), PyStr(<<"H", "i", "s", "t", "o'", "r", "i", "c", "o">>), PyStr(<<"V", "a", "l", "o", "r", " ", "(", "R", "$", ")">>) >>
LinhasValorReais ==
  { << D1, PyStr(<<"P", "I", "X", " ", "J", "O", "A", "O">>), PyStr(<<"1", "5", "0", ",", "0", "0">>) >>,
    << D1, PyStr(<<"T", "A", "R", "I", "F", "A">>), PyStr(<<"-", "1", "2", ",", "0", "0">>) >> }

\* bank statement without any amount column
CabecalhoSemValor == << PyStr(<<"D", "a", "t", "a">>), PyStr(<<"H", "i", "s", "t", "o'", "r", "i", "c", "o">>) >>
LinhasSemValor ==
  { << D1, PyStr(<<"V", "E", "N", "D", "A", " ", "B", "A", "L", "C", "A", "O">>) >>, << D1, PyStr(<<"P", "I", "X", " ", "J", "O", "A", "O">>) >> }

\* processor statement, columns Data;Descricao;Entradas;Saidas
CabecalhoPag ==
  << PyStr(<<"D", "a", "t", "a">>), PyStr(<<"D", "e", "s", "c", "r", "i", "c,", "a~", "o">>), PyStr(<<"E", "n", "t", "r", "a", "d", "a", "s">>), PyStr(<<"S", "a", "i", "d", "a", "s">>) >>
LinhasPag ==
  { << D2, PyStr(<<"V", "E", "N", "D", "A">>), PyStr(<<"3", "0", ",", "0", "0">>), PyStr(<<"0">>) >>,
    << D2, PyStr(<<"T", "A", "X", "A">>), PyStr(<<"0">>), PyStr(<<"2", "0", ",", "0", "0">>) >>,
    << D2, PyStr(<<"V", "E", "N", "D", "A", " ", "C", "O", "M", " ", "T", "A", "X", "A">>), PyStr(<<"3", "0", ",", "0", "0">>), PyStr(<<"2", "0", ",", "0", "0">>) >>,
    << D2, PyStr(<<"E", "S", "T", "O", "R", "N", "O">>), PyStr(<<"-", "3", "0", ",", "0", "0">>), PyStr(<<"-", "2", "0", ",", "0", "0">>) >>,
    << D2, PyStr(<<"S", "a", "l", "d", "o", " ", "d", "i", "a">>), PyStr(<<"5", "0", "0", ",", "0", "0">>), PyStr(<<"0">>) >>,
    << D2, PyStr(<<"V", "E", "N", "D", "A">>), PyStr(<<"a", "b", "c">>), PyStr(<<"0">>) >>,
    << D2, PyStr(<<"V", "E", "N", "D", "A">>), NaN, NaN >> }

Csv(cabecalho, linhas) ==
  [up |-> TRUE, suffix |-> <<".", "c", "s", "v">>, raw |-> <<cabecalho>> \o linhas]

\* spreadsheets as the bank exports them: three rows of letterhead, the header
\* in row 4, then the rows of the table, some of them blank
Xlsx(raw) == [up |-> TRUE, suffix |-> <<".", "x", "l", "s", "x">>, raw |-> raw]
Carta ==
  << << PyStr(<<"B", "a", "n", "c", "o", " ", "I", "t", "a", "u'">>), NaN, NaN >>,
     << PyStr(<<"E", "x", "t", "r", "a", "t", "o", " ", "d", "e", " ", "c", "o", "n", "t", "a", " ", "c", "o", "r", "r", "e", "n", "t", "e">>), NaN, NaN >>,
     << PyStr(<<"P", "e", "r", "i'", "o", "d", "o", ":", " ", "1", "1", "/", "2", "0", "2", "5">>), NaN, NaN >> >>
CabecalhoHistorico == << PyStr(<<"D", "a", "t", "a">>), PyStr(<<"H", "i", "s", "t", "o'", "r", "i", "c", "o">>), PyStr(<<"V", "a", "l", "o", "r">>) >>
CabecalhoLancamento == << PyStr(<<"D", "a", "t", "a">>), PyStr(<<"L", "a", "n", "c,", "a", "m", "e", "n", "t", "o">>), PyStr(<<"V", "a", "l", "o", "r">>) >>
LinhasPlanilha ==
  { << PyDate(202511), PyStr(<<"V", "E", "N", "D", "A", " ", "B", "A", "L", "C", "A", "O">>), PyNum(10000) >>,
    << NaN, NaN, NaN >>,
    << PyDate(202511), PyStr(<<"S", "A", "L", "D", "O", " ", "D", "O", " ", "D", "I", "A">>), PyNum(99900) >> }
Planilhas ==
  {Xlsx(Carta \o <<c>> \o ls) :
     c \in {CabecalhoHistorico, CabecalhoLancamento},
     ls \in SeqsUpTo(LinhasPlanilha, MaxLinhas)}

\* sheets with noise rows above a header row written in other letter cases, or
\* above none, and a second header row among the data rows
LinhasRuido ==
  { << NaN, NaN, NaN >>,
    << PyStr(<<"D", "a", "t", "a">>), NaN, PyNum(100) >>,
    << PyStr(<<"T", "i", "p", "o">>), PyDate(202511), NaN >>,
    << PyNum(1234500), PyStr(<<"l", "a", "n", "c,", "a", "m", "e", "n", "t", "o", "s">>), PyStr(<<"x">>) >> }
CabecalhoDescricao == << PyStr(<<" ", "d", "a", "t", "a", " ">>), PyStr(<<"D", "e", "s", "c", "r", "i", "c,", "a~", "o">>), PyStr(<<"V", "a", "l", "o", "r">>) >>
CabecalhoTipo == << PyStr(<<"D", "A", "T", "A">>), PyStr(<<"T", "I", "P", "O">>), PyStr(<<"V", "A", "L", "O", "R">>) >>
PlanilhasComRuido ==
  {Xlsx(r \o <<c>> \o ls) :
     r \in SeqsUpTo(LinhasRuido, MaxLinhas),
     c \in {CabecalhoDescricao, CabecalhoTipo, CabecalhoHistorico},
     ls \in SeqsUpTo(LinhasPlanilha \cup {CabecalhoTipo}, MaxLinhas)}

ExtratosItau ==
  {Csv(CabecalhoItau, ls) : ls \in SeqsUpTo(LinhasItau, MaxLinhas)}
    \cup {Csv(CabecalhoSemValor, ls) : ls \in SeqsUpTo(LinhasSemValor, MaxLinhas)}
    \cup Planilhas
    \cup PlanilhasComRuido
    \cup {Csv(CabecalhoValorReais, ls) : ls \in SeqsUpTo(LinhasValorReais, MaxLinhas)}

\* bank statements with payroll, transfer and card rows
LinhasFolha ==
  { << D1, PyStr(<<"S", "a", "l", "a'", "r", "i", "o", " ", "V", "e", "r", "o^", "n", "i", "c", "a">>), PyStr(<<"-", "1", ".", "5", "0", "0", ",", "0", "0">>), NaN, NaN >>,
    << D1, PyStr(<<"P", "I", "X", " ", "R", "I", "C", "A", "R", "D", "O">>), NaN, NaN, PyStr(<<"2", "0", "0", ",", "0", "0">>) >>,
    << D1, PyStr(<<"A", "l", "u", "g", "u", "e", "l", " ", "c", "a", "r", "t", "a~", "o">>), NaN, PyStr(<<"8", "0", ",", "0", "0">>), NaN >> }
ExtratosFolha == {Csv(CabecalhoItau, ls) : ls \in SeqsUpTo(LinhasFolha, MaxLinhas)}

ExtratosPag ==
  {Csv(CabecalhoPag, ls) : ls \in SeqsUpTo(LinhasPag, MaxLinhas)}
    \cup {Csv(CabecalhoSemValor, ls) : ls \in SeqsUpTo(LinhasSemValor, MaxLinhas)}

\* amount cells drawn for parse_numero_br: an optional R$ marker and blanks
\* around a numeral
PrefixosNumero == { <<>>, <<"R", "$">>, <<"R", "$", " ">>, <<" ">> }
SufixosNumero == { <<>>, <<" ">> }
CorposNumero ==
  { <<"1", ".", "2", "3", "4", ",", "5", "6">>, <<"1", "2", "3", "4", ",", "5", "6">>, <<"1", "2", "3", "4", ".", "5", "6">>, <<"1", "0", ",", "5", "0">>, <<"1", ".", "2", "3", "4", ".", "5", "6", "7", ",", "8", "9">>,
    <<"1", "2", ".", "5">>, <<"-", "5", "0", ",", "0", "0">>, <<"0">>, <<"7">>, <<>>, <<"-">> }
EntradasParse ==
  {PyNone, PyNaN, PyNum(1050)}
    \cup {PyStr(p \o c \o f) :
            p \in PrefixosNumero, c \in CorposNumero, f \in SufixosNumero}

\* texts drawn for normalizar_texto: every single letter of the alphabet (ASCII
\* letters and the eleven accented letters of the substitution list, in both
\* cases), every text of up to MaxTexto letters over a short alphabet, and two
\* words
AcentuadasMaiusculas ==
  {"O'", "O^", "O~", "I'", "A'", "A!", "A~", "E'", "E^", "U'", "C,"}
Minusculas == {LowerChars[i] : i \in 1..Len(LowerChars)}
Alfabeto ==
  ({UpperChars[i] : i \in 1..Len(UpperChars)} \cup Minusculas) \ {"A^", "a^"}
AlfabetoCurto == {"a", "A", "z", "c,", "C,", "a~", "O^", "e'"}
EntradasNormalizar ==
  {PyNone}
    \cup {PyStr(<<c>>) : c \in Alfabeto}
    \cup {PyStr(t) : t \in SeqsUpTo(AlfabetoCurto, MaxTexto)}
    \cup {PyStr(<<"A", "c,", "a~", "o">>), PyStr(<<"A", "C", "A", "O">>)}

\* transactions and rule tables drawn for the classifier
DescricoesMov ==
  { PyNone, PyStr(<<>>), PyNaN,
    PyStr(<<"C", "o", "m", "p", "r", "a", " ", "L", "o", "j", "a", " ", "X", "Y", "Z", " ", "c", "a", "r", "t", "a~", "o">>), PyStr(<<"P", "I", "X", " ", "J", "O", "A", "O">>),
    PyStr(<<"P", "I", "X", " ", "R", "I", "C", "A", "R", "D", "O">>), PyStr(<<"V", "E", "N", "D", "A", " ", "B", "A", "L", "C", "A", "O">>),
    PyStr(<<"S", "a", "l", "a'", "r", "i", "o", " ", "C", "a", "r", "o", "l", "i", "n", "e">>), PyStr(<<"P", "i", "x", " ", "R", "i", "c", "a", "r", "d", "o", " ", "s", "a", "l", "a'", "r", "i", "o">>),
    PyStr(<<"T", "E", "D", " ", "R", "i", "c", "a", "r", "d", "o">>), PyStr(<<"A", "l", "u", "g", "u", "e", "l", " ", "c", "a", "r", "t", "a~", "o", " ", "D", "A", "R", "F">>) }
ValoresMov == {0 - 7500, 0, 15000}
PadroesRegra == { <<"L", "O", "J", "A", " ", "X", "Y", "Z">>, <<"P", "I", "X">>, <<"P", "I", "X", " ", "J", "O", "A", "O">> }
CategoriasRegra == { CatCustom, CatVendas, "" }
Regra(k, v) == [k |-> k, v |-> v]
TabelasRegras ==
  { t \in SeqsUpTo({Regra(k, v) : k \in PadroesRegra, v \in CategoriasRegra},
                   MaxRegras) :
      \A i, j \in 1..Len(t) : i # j => t[i].k # t[j].k }

\* the statements, opening balances, ledgers and rule files of the app session
ItauA ==
  Csv(<< PyStr(<<"D", "a", "t", "a">>), PyStr(<<"H", "i", "s", "t", "o'", "r", "i", "c", "o">>), PyStr(<<"V", "a", "l", "o", "r">>) >>,
      << << D1, PyStr(<<"P", "I", "X">>), PyStr(<<"1", "0", "0", ",", "0", "0">>) >>,
         << D1, PyStr(<<"P", "I", "X", " ", "J", "O", "A", "O">>), PyStr(<<"-", "5", "0", ",", "0", "0">>) >> >>)
ItauB ==
  [up |-> TRUE, suffix |-> <<".", "x", "l", "s", "x">>,
   raw |-> << << PyStr(<<"B", "a", "n", "c", "o", " ", "I", "t", "a", "u'">>), NaN, NaN >>,
              << PyStr(<<"D", "a", "t", "a">>), PyStr(<<"L", "a", "n", "c,", "a", "m", "e", "n", "t", "o">>), PyStr(<<"V", "a", "l", "o", "r">>) >>,
              << PyDate(202511), PyStr(<<"C", "o", "m", "p", "r", "a", " ", "L", "o", "j", "a", " ", "X", "Y", "Z", " ", "c", "a", "r", "t", "a~", "o">>), PyNum(0 - 3000) >>,
              << NaN, NaN, NaN >>,
              << PyDate(202511), PyStr(<<"S", "A", "L", "D", "O", " ", "D", "O", " ", "D", "I", "A">>), PyNum(99900) >> >>]
ItauRuim ==
  Csv(<< PyStr(<<"D", "a", "t", "a">>), PyStr(<<"H", "i", "s", "t", "o'", "r", "i", "c", "o">>), PyStr(<<"V", "a", "l", "o", "r">>) >>,
      << << D1, PyStr(<<"V", "E", "N", "D", "A", " ", "B", "A", "L", "C", "A", "O">>), PyStr(<<"a", "b", "c">>) >> >>)
ItauSemValor == Csv(CabecalhoSemValor, << << D1, PyStr(<<"V", "E", "N", "D", "A", " ", "B", "A", "L", "C", "A", "O">>) >> >>)
ItauPdf == [up |-> TRUE, suffix |-> <<".", "p", "d", "f">>, raw |-> <<>>]
ItauC ==
  Csv(<< PyStr(<<"D", "a", "t", "a">>), PyStr(<<"H", "i", "s", "t", "o'", "r", "i", "c", "o">>), PyStr(<<"V", "a", "l", "o", "r">>) >>,
      << << D1, PyStr(<<"S", "A", "L", "A", "R", "I", "O", " ", "C", "A", "R", "O", "L", "I", "N", "E">>), PyStr(<<"1", "0", "0", "0", ",", "0", "0">>) >>,
         << D1, PyStr(<<"E", "N", "E", "R", "G", "I", "A", " ", "E", "L", "E", "T", "R", "I", "C", "A", " ", "C", "E", "E", "E">>), PyStr(<<"-", "2", "0", "0", ",", "0", "0">>) >> >>)
ArquivosItau == {ItauA, ItauB, ItauC, ItauRuim, ItauSemValor, ItauPdf}

PagA == Csv(CabecalhoPag,
            << << D2, PyStr(<<"V", "E", "N", "D", "A">>), PyStr(<<"5", "0", "0", ",", "0", "0">>), PyStr(<<"0">>) >> >>)
PagPdf == [up |-> TRUE, suffix |-> <<".", "p", "d", "f">>, raw |-> <<>>]
ArquivosPag == {PagA, PagPdf}

SaldosIniciais == { <<"3", "0", "0", ",", "0", "0">>, <<"a", "b", "c">> }

Lancamento(data, desc, tipo, valor) ==
  [Data |-> data, Descricao |-> desc, Tipo |-> tipo, Valor |-> valor]
CaixaVazio == <<>>
CaixaA ==
  << Lancamento(PyDate(202511), PyStr(<<"G", "E", "L", "O">>), TipoSaida, PyNum(400)),
     Lancamento(PyDate(202510), PyStr(<<"G", "A", "S">>), TipoSaida, PyNum(900)),
     Lancamento(PyDate(202511), PyStr(<<"A", "J", "U", "S", "T", "E">>), PyStr(<<"A", "j", "u", "s", "t", "e">>), PyNum(700)) >>
LivrosCaixa == {CaixaVazio, CaixaA}

ArquivoAusente == [tipo |-> "ausente", regras |-> <<>>]
ArquivosRegras ==
  { ArquivoAusente,
    [tipo |-> "invalido", regras |-> <<>>],
    [tipo |-> "nao_dict", regras |-> << Regra(<<"P", "I", "X">>, CatCustom) >>],
    salvar_regras(<< Regra(<<"L", "O", "J", "A", " ", "X", "Y", "Z">>, CatCustom) >>),
    salvar_regras(<< Regra(<<"P", "I", "X">>, "") >>),
    salvar_regras(<< Regra(<<"P", "I", "X", " ", "J", "O", "A", "O">>, CatVendas), Regra(<<"P", "I", "X">>, "") >>) }

CategoriasEditor == {CatCustom, ""}

\* rows drawn for the description synthesis: three columns and their cells
CabecalhosDescricao ==
  { << <<"d", "e", "s", "c", "r", "i", "c", "a", "o">>, <<"H", "i", "s", "t", "o'", "r", "i", "c", "o">>, <<"V", "a", "l", "o", "r">> >>,
    << <<"H", "i", "s", "t", "o'", "r", "i", "c", "o">>, <<"D", "o", "c", "t", "o">>, <<"D", "e", "s", "c", "r", "i", "c,", "a~", "o">> >>,
    << <<"D", "o", "c", "t", "o">>, <<"T", "i", "p", "o">>, <<"H", "i", "s", "t", "o'", "r", "i", "c", "o">> >>,
    << <<"D", "a", "t", "a">>, <<"D", "o", "c", "t", "o">>, <<"S", "a", "l", "d", "o">> >>,
    << <<"D", "a", "t", "a">>, <<"H", "i", "s", "t", "o'", "r", "i", "c", "o">>, <<"V", "a", "l", "o", "r", " ", "(", "R", "$", ")">> >> }
CelulasDescricao ==
  { PyNone, NaN, PyStr(<<>>), PyStr(<<" ">>), PyStr(<<"P", "I", "X">>), PyStr(<<" ", "P", "I", "X", " ">>),
    PyStr(<<"1", "5", "0", ",", "0", "0">>) }
LinhasDescricao ==
  { mkdict(c, v, 3) : c \in CabecalhosDescricao, v \in [1..3 -> CelulasDescricao] }

\* the frames the two sessions' editors hold when they commit: rows with a
\* description and the category chosen for it
LinhaEditada(desc, cat) == [Descricao |-> PyStr(desc), Categoria |-> cat]
LinhasEditadasDe(s) ==
  IF s = "A"
  THEN { LinhaEditada(<<"P", "i", "x", " ", "J", "o", "a", "o">>, CatCustom), LinhaEditada(<<"V", "E", "N", "D", "A", " ", "B", "A", "L", "C", "A", "O">>, CatVendas) }
  ELSE { LinhaEditada(<<"T", "a", "r", "i", "f", "a">>, CatFornecedores), LinhaEditada(<<"C", "O", "M", "P", "R", "A">>, CatCustom) }
QuadrosEditados(s) == SeqsUpTo(LinhasEditadasDe(s), MaxLinhas) \ { <<>> }

\* period names typed in the sidebar and the rows a session adds in the editor
MaxSalvamentos == 2
NomesPeriodo ==
  { <<"2", "0", "2", "5", "-", "1", "1", " ", "-", " ", "p", "e", "r", "i'", "o", "d", "o">>, <<"2", "0", "2", "5", "-", "1", "0", " ", "m", "e^", "s", " ", "c", "h", "e", "i", "o">>, <<"N", "o", "v", "e", "m", "b", "r", "o", " ", "2", "0", "2", "5">>, <<>>,
    <<" ", "2", "0", "2", "5", "-", "1">> }
NovasLinhas(s) ==
  IF s = "A"
  THEN { <<>>, << Lancamento(PyDate(202511), PyStr(<<"T", "R", "O", "C", "O", " ", "A">>), TipoEntrada, PyNum(5000)) >> }
  ELSE { <<>>, << Lancamento(PyDate(202511), PyStr(<<"T", "R", "O", "C", "O", " ", "B">>), TipoEntrada, PyNum(3000)) >>,
         << Lancamento(PyDate(202510), PyStr(<<"F", "E", "I", "R", "A", " ", "B">>), TipoSaida, PyNum(1200)) >> }
CaixaB ==
  << Lancamento(PyDate(202510), PyStr(<<"G", "A", "S">>), TipoSaida, PyNum(900)),
     Lancamento(PyStr(<<"s", "e", "m", " ", "d", "a", "t", "a">>), PyStr(<<"A", "C", "E", "R", "T", "O">>), TipoEntrada, PyNum(100)) >>
LivrosNoDrive == {CaixaVazio, CaixaA, CaixaB}

\* classified movements drawn for the summary by category
MaxMovimentos == 3
CategoriasResumo == {"", CatAClassificar, CatCartao, CatFolha, CatCustom}
ValoresResumo == {0 - 7500, 0, 15000}
LinhaResumo(cat, v) == [Categoria |-> cat, Valor |-> v]
QuadrosResumo ==
  SeqsUpTo({LinhaResumo(c, v) : c \in CategoriasResumo, v \in ValoresResumo},
           MaxMovimentos)
CategoriasSemArquivo == [tipo |-> "ausente", lista |-> <<>>]
NovasCategorias == {CatCustom, ""}

(***************************************************************************)
(* State                                                                   *)
(***************************************************************************)
VARIABLES
  arquivo_itau,         \* sidebar uploader "itau"
  arquivo_pag,          \* sidebar uploader "pagseguro"
  saldo_inicial_input,  \* sidebar text input
  regras_arquivo,       \* regras_categorias.json on disk
  categorias_arquivo,   \* categorias_personalizadas.json on disk
  df_caixa_global,      \* st.session_state["df_caixa_global"]
  fech,                 \* what the last script run assigned (FechamentoInicial fields)
  edicoes,              \* pending cell edits of st.data_editor "editor_movimentos"
  n_commits,            \* rule commits so far (bounded by MaxCommits)
  n_itau,               \* files put into the bank uploader so far
  n_pag,                \* files put into the processor uploader so far
  commit,               \* history: the rule commit, while it is the last event
  cl,                   \* classifier trial: [feito, mov, regras, cat]
  ex,                   \* adapter trial: [feito, conta, arquivo, lido, res]
  tx,                   \* text trial: [feito, f, entrada, num, texto, texto2]
  rs,                   \* summary trial: [feito, df, dados_cat]
  ds,                   \* description trial: [feito, linha, descricao]
  sessoes,              \* two sessions' rule commits: [pc, edited_df, regras] each
  caixa_drive,          \* caixa_dinheiro.xlsx on Drive
  caixa_sessao,         \* per session: [carregado, df_caixa_global]
  caixa_hist,           \* history: the saves of the cash ledger, in order
  cli,                  \* CLI/app comparison: [feito, conta, linhas, app, cli, cats_app, cats_cli]
  secrets,              \* st.secrets: [auth_users, APP_PASSWORD]
  session_state,        \* login keys of st.session_state: auth_ok, user, role
  tela                  \* what the last script run rendered, and the submit it handled

vars == << arquivo_itau, arquivo_pag, saldo_inicial_input, regras_arquivo,
           categorias_arquivo, df_caixa_global, fech, edicoes, n_commits, n_itau,
           n_pag, commit, cl, ex, tx, rs, ds, sessoes,
           caixa_drive, caixa_sessao, caixa_hist,
           cli,
           secrets, session_state, tela >>
vars_caixa == << caixa_drive, caixa_sessao, caixa_hist >>
vars_cli == << cli >>
vars_login == << secrets, session_state, tela >>
\* the variables of the trials that follow the text trial
demais == << rs, ds, sessoes, vars_caixa, vars_cli, vars_login >>
vars_app == << arquivo_itau, arquivo_pag, saldo_inicial_input, regras_arquivo,
               categorias_arquivo, df_caixa_global, fech, edicoes, n_commits,
               n_itau, n_pag, commit >>

\* commit.feito holds in the state a rule commit leaves; df_mov is the frame the
\* editor showed, edicoes the cell edits laid over it, edited_df the frame the
\* commit looped over and regras the table it loaded
SemCommit == [feito |-> FALSE, df_mov |-> <<>>, edicoes |-> <<>>,
              edited_df |-> <<>>, regras |-> <<>>]

ClInicial == [feito |-> FALSE, mov |-> [descricao |-> PyNone, valor |-> 0],
              regras |-> <<>>, cat |-> ""]
LeituraVazia == [ok |-> TRUE, linhas |-> <<>>]
ExInicial == [feito |-> FALSE, conta |-> "", arquivo |-> NoFile,
              lido |-> LeituraVazia, res |-> ExtratoVazio]
TxInicial == [feito |-> FALSE, f |-> "", entrada |-> PyNone,
              num |-> [ok |-> TRUE, v |-> 0], texto |-> <<>>, texto2 |-> <<>>]
RsInicial == [feito |-> FALSE, df |-> <<>>, dados_cat |-> <<>>]
DsInicial == [feito |-> FALSE, linha |-> <<>>, descricao |-> PyNone]
Sessoes == {"A", "B"}
SessaoInicial == [pc |-> "editor", edited_df |-> <<>>, regras |-> <<>>]
SessoesIniciais == [s \in Sessoes |-> SessaoInicial]
CaixaSessaoInicial == [carregado |-> FALSE, df_caixa_global |-> <<>>]
CaixaParado ==
  /\ caixa_drive = CaixaVazio
  /\ caixa_sessao = [s \in Sessoes |-> CaixaSessaoInicial]
  /\ caixa_hist = <<>>
CliInicial == [feito |-> FALSE, conta |-> "", linhas |-> <<>>,
               app |-> ExtratoVazio, cli |-> ExtratoVazio,
               cats_app |-> <<>>, cats_cli |-> <<>>]
CliParado == cli = CliInicial
\* no script run yet: nothing rendered, no widget event handled
TelaParada == [evento |-> "", username |-> <<>>, senha |-> <<>>,
               login_form |-> FALSE, erro |-> "", sair_visivel |-> FALSE,
               fechamento |-> FALSE, abas |-> <<>>, aviso |-> FALSE]
LoginParado ==
  /\ secrets = <<>>
  /\ session_state = <<>>
  /\ tela = TelaParada
DemaisIniciais ==
  /\ rs = RsInicial
  /\ ds = DsInicial
  /\ sessoes = SessoesIniciais
  /\ CaixaParado
  /\ CliParado
  /\ LoginParado

\* the app session before any widget event, and no classifier, adapter or text trial
SessaoParada ==
  /\ arquivo_itau = NoFile
  /\ arquivo_pag = NoFile
  /\ saldo_inicial_input = <<"0">>
  /\ regras_arquivo = ArquivoAusente
  /\ categorias_arquivo = CategoriasSemArquivo
  /\ df_caixa_global = CaixaVazio
  /\ fech = FechamentoInicial(<<>>)
  /\ edicoes = SemEdicoes
  /\ n_commits = 0
  /\ n_itau = 0
  /\ n_pag = 0
  /\ commit = SemCommit
  /\ cl = ClInicial
  /\ ex = ExInicial
  /\ tx = TxInicial

Init ==
  /\ arquivo_itau = NoFile
  /\ arquivo_pag = NoFile
  /\ saldo_inicial_input = <<"0">>
  /\ regras_arquivo \in ArquivosRegras
  /\ categorias_arquivo = CategoriasSemArquivo
  /\ df_caixa_global \in LivrosCaixa
  /\ fech = FechamentoInicial(<<>>)
  /\ edicoes = SemEdicoes
  /\ n_commits = 0
  /\ n_itau = 0
  /\ n_pag = 0
  /\ commit = SemCommit
  /\ cl = ClInicial
  /\ ex = ExInicial
  /\ tx = TxInicial
  /\ DemaisIniciais

(***************************************************************************)
(* One script run of the app.  Streamlit reruns the whole script on every  *)
(* widget event; the data editor keeps its pending edits only while the    *)
(* frame it shows is unchanged.                                            *)
(***************************************************************************)
executar(itau, pag, saldo, arq) ==
  fechamento(itau, pag, saldo, arq, df_caixa_global, fech.REGRAS_CATEGORIA)

edicoes_apos(novo, eds) == IF novo.df_mov = fech.df_mov THEN eds ELSE SemEdicoes

\* a file arrives in the bank uploader
CarregarItau(f) ==
  /\ n_itau < MaxCarregamentos
  /\ n_itau' = n_itau + 1
  /\ arquivo_itau' = f
  /\ fech' = executar(f, arquivo_pag, saldo_inicial_input, regras_arquivo)
  /\ edicoes' = edicoes_apos(fech', edicoes)
  /\ commit' = SemCommit
  /\ UNCHANGED << arquivo_pag, saldo_inicial_input, regras_arquivo,
                  categorias_arquivo, df_caixa_global, n_commits, n_pag, cl, ex, tx, demais >>

\* a file arrives in the processor uploader
CarregarPag(f) ==
  /\ n_pag < MaxCarregamentos
  /\ n_pag' = n_pag + 1
  /\ arquivo_pag' = f
  /\ fech' = executar(arquivo_itau, f, saldo_inicial_input, regras_arquivo)
  /\ edicoes' = edicoes_apos(fech', edicoes)
  /\ commit' = SemCommit
  /\ UNCHANGED << arquivo_itau, saldo_inicial_input, regras_arquivo,
                  categorias_arquivo, df_caixa_global, n_commits, n_itau, cl, ex, tx, demais >>

\* the opening balance is typed
InformarSaldo(s) ==
  /\ saldo_inicial_input' = s
  /\ fech' = executar(arquivo_itau, arquivo_pag, s, regras_arquivo)
  /\ edicoes' = edicoes_apos(fech', edicoes)
  /\ commit' = SemCommit
  /\ UNCHANGED << arquivo_itau, arquivo_pag, regras_arquivo,
                  categorias_arquivo, df_caixa_global, n_commits, n_itau, n_pag,
                  cl, ex, tx, demais >>

\* tab 3: "Adicionar categoria" with nova_cat typed.  A new name is appended
\* to the list and saved; st.rerun(), or the click alone, runs the script.  The
\* editor is rebuilt with the new options and may or may not keep its edits.
AdicionarCategoria(nova_cat) ==
  /\ fech.dados_carregados
  /\ categorias_arquivo' = categorias_apos_adicionar(categorias_arquivo, nova_cat)
  /\ fech' = executar(arquivo_itau, arquivo_pag, saldo_inicial_input, regras_arquivo)
  /\ edicoes' \in {edicoes_apos(fech', edicoes), SemEdicoes}
  /\ commit' = SemCommit
  /\ UNCHANGED << arquivo_itau, arquivo_pag, saldo_inicial_input, regras_arquivo,
                  df_caixa_global, n_commits, n_itau, n_pag, cl, ex, tx, demais >>

\* tab 3: the user picks a category in row i of the editor
EditarCategoria(i, c) ==
  /\ fech.dados_carregados
  /\ c = "" \/ in_list(c, categorias_possiveis(categorias_arquivo))
  /\ i \in 1..Len(fech.df_mov)
  /\ Cardinality(DOMAIN edicoes \cup {i}) <= MaxEdicoes
  /\ fech' = executar(arquivo_itau, arquivo_pag, saldo_inicial_input, regras_arquivo)
  /\ edicoes' = edicoes_apos(fech',
                  [j \in DOMAIN edicoes \cup {i} |-> IF j = i THEN c ELSE edicoes[j]])
  /\ commit' = SemCommit
  /\ UNCHANGED << arquivo_itau, arquivo_pag, saldo_inicial_input, regras_arquivo,
                  categorias_arquivo, df_caixa_global, n_commits, n_itau, n_pag,
                  cl, ex, tx, demais >>

\* tab 3: "Salvar regras de categorizacao".  The click reruns the script; the
\* handler loads the table, loops over edited_df, saves, and st.rerun() runs
\* the script once more.
SalvarRegras ==
  LET antes == executar(arquivo_itau, arquivo_pag, saldo_inicial_input, regras_arquivo)
      edited_df == aplicar_edicoes(antes.df_mov, edicoes_apos(antes, edicoes))
      regras == carregar_regras(regras_arquivo)
      novo_arquivo == salvar_regras(regras_apos_edicao(regras, edited_df))
  IN /\ fech.dados_carregados
     /\ n_commits < MaxCommits
     /\ n_commits' = n_commits + 1
     /\ regras_arquivo' = novo_arquivo
     /\ fech' = fechamento(arquivo_itau, arquivo_pag, saldo_inicial_input,
                           novo_arquivo, df_caixa_global, antes.REGRAS_CATEGORIA)
     /\ edicoes' = IF fech'.df_mov = antes.df_mov
                   THEN edicoes_apos(antes, edicoes) ELSE SemEdicoes
     /\ commit' = [feito |-> TRUE, df_mov |-> antes.df_mov,
                   edicoes |-> edicoes_apos(antes, edicoes),
                   edited_df |-> edited_df, regras |-> regras]
     /\ UNCHANGED << arquivo_itau, arquivo_pag, saldo_inicial_input,
                     categorias_arquivo, df_caixa_global, n_itau, n_pag, cl, ex, tx, demais >>

Next ==
  \/ \E f \in ArquivosItau : CarregarItau(f)
  \/ \E f \in ArquivosPag : CarregarPag(f)
  \/ \E s \in SaldosIniciais : InformarSaldo(s)
  \/ \E c \in NovasCategorias : AdicionarCategoria(c)
  \/ \E i \in 1..Len(fech.df_mov), c \in CategoriasEditor : EditarCategoria(i, c)
  \/ SalvarRegras

Spec == Init /\ [][Next]_vars

(***************************************************************************)
(* The classifier applied to drawn transactions and rule tables            *)
(***************************************************************************)
InitClassificar ==
  /\ arquivo_itau = NoFile
  /\ arquivo_pag = NoFile
  /\ saldo_inicial_input = <<"0">>
  /\ regras_arquivo = ArquivoAusente
  /\ categorias_arquivo = CategoriasSemArquivo
  /\ df_caixa_global = CaixaVazio
  /\ fech = FechamentoInicial(<<>>)
  /\ edicoes = SemEdicoes
  /\ n_commits = 0
  /\ n_itau = 0
  /\ n_pag = 0
  /\ commit = SemCommit
  /\ ex = ExInicial
  /\ tx = TxInicial
  /\ DemaisIniciais
  /\ \E d \in DescricoesMov, v \in ValoresMov, t \in TabelasRegras :
       cl = [feito |-> FALSE, mov |-> [descricao |-> d, valor |-> v],
             regras |-> t, cat |-> ""]

Classificar ==
  /\ ~cl.feito
  /\ cl' = [cl EXCEPT !.feito = TRUE,
                      !.cat = classificar_categoria(cl.mov, cl.regras)]
  /\ UNCHANGED << vars_app, ex, tx, demais >>

NextClassificar == Classificar

SpecClassificar == InitClassificar /\ [][NextClassificar]_vars

(***************************************************************************)
(* The adapters applied to drawn statements                                *)
(***************************************************************************)
InitExtrato ==
  /\ arquivo_itau = NoFile
  /\ arquivo_pag = NoFile
  /\ saldo_inicial_input = <<"0">>
  /\ regras_arquivo = ArquivoAusente
  /\ categorias_arquivo = CategoriasSemArquivo
  /\ df_caixa_global = CaixaVazio
  /\ fech = FechamentoInicial(<<>>)
  /\ edicoes = SemEdicoes
  /\ n_commits = 0
  /\ n_itau = 0
  /\ n_pag = 0
  /\ commit = SemCommit
  /\ cl = ClInicial
  /\ tx = TxInicial
  /\ DemaisIniciais
  /\ \/ \E f \in ExtratosItau :
          ex = [feito |-> FALSE, conta |-> "Itau", arquivo |-> f,
                lido |-> LeituraVazia, res |-> ExtratoVazio]
     \/ \E f \in ExtratosPag :
          ex = [feito |-> FALSE, conta |-> "PagSeguro", arquivo |-> f,
                lido |-> LeituraVazia, res |-> ExtratoVazio]

ProcessarItau ==
  /\ ~ex.feito /\ ex.conta = "Itau"
  /\ ex' = [ex EXCEPT !.feito = TRUE,
                      !.lido = ler_arquivo_tabela_upload(ex.arquivo),
                      !.res = carregar_extrato_itau_upload(ex.arquivo)]
  /\ UNCHANGED << vars_app, cl, tx, demais >>

ProcessarPagSeguro ==
  /\ ~ex.feito /\ ex.conta = "PagSeguro"
  /\ ex' = [ex EXCEPT !.feito = TRUE,
                      !.lido = ler_arquivo_tabela_upload(ex.arquivo),
                      !.res = carregar_extrato_pagseguro_upload(ex.arquivo)]
  /\ UNCHANGED << vars_app, cl, tx, demais >>

NextExtrato == ProcessarItau \/ ProcessarPagSeguro

SpecExtrato == InitExtrato /\ [][NextExtrato]_vars

(***************************************************************************)
(* parse_numero_br and normalizar_texto applied to drawn cells and texts   *)
(***************************************************************************)
InitTexto ==
  /\ arquivo_itau = NoFile
  /\ arquivo_pag = NoFile
  /\ saldo_inicial_input = <<"0">>
  /\ regras_arquivo = ArquivoAusente
  /\ categorias_arquivo = CategoriasSemArquivo
  /\ df_caixa_global = CaixaVazio
  /\ fech = FechamentoInicial(<<>>)
  /\ edicoes = SemEdicoes
  /\ n_commits = 0
  /\ n_itau = 0
  /\ n_pag = 0
  /\ commit = SemCommit
  /\ cl = ClInicial
  /\ ex = ExInicial
  /\ DemaisIniciais
  /\ \/ \E v \in EntradasParse :
          tx = [TxInicial EXCEPT !.f = "parse_numero_br", !.entrada = v]
     \/ \E v \in EntradasNormalizar :
          tx = [TxInicial EXCEPT !.f = "normalizar_texto", !.entrada = v]

Parsear ==
  /\ ~tx.feito /\ tx.f = "parse_numero_br"
  /\ tx' = [tx EXCEPT !.feito = TRUE, !.num = parse_numero_br(tx.entrada)]
  /\ UNCHANGED << vars_app, cl, ex, demais >>

\* normalizar_texto applied to the text, and once more to its own result
Normalizar ==
  /\ ~tx.feito /\ tx.f = "normalizar_texto"
  /\ tx' = [tx EXCEPT !.feito = TRUE,
                      !.texto = normalizar_texto(tx.entrada),
                      !.texto2 = normalizar_texto(PyStr(normalizar_texto(tx.entrada)))]
  /\ UNCHANGED << vars_app, cl, ex, demais >>

NextTexto == Parsear \/ Normalizar

SpecTexto == InitTexto /\ [][NextTexto]_vars

(***************************************************************************)
(* The summary by category applied to drawn frames of classified movements *)
(***************************************************************************)
InitResumo ==
  /\ SessaoParada
  /\ LoginParado
  /\ CliParado
  /\ CaixaParado
  /\ ds = DsInicial
  /\ sessoes = SessoesIniciais
  /\ \E df \in QuadrosResumo : rs = [RsInicial EXCEPT !.df = df]

Resumir ==
  /\ ~rs.feito
  /\ rs' = [rs EXCEPT !.feito = TRUE, !.dados_cat = dados_cat(rs.df)]
  /\ UNCHANGED << vars_app, cl, ex, tx, ds, sessoes, vars_caixa, vars_cli, vars_login >>

NextResumo == Resumir

SpecResumo == InitResumo /\ [][NextResumo]_vars

(***************************************************************************)
(* extrair_descricao_linha applied to drawn rows                           *)
(***************************************************************************)
InitDescricao ==
  /\ SessaoParada
  /\ LoginParado
  /\ CliParado
  /\ CaixaParado
  /\ rs = RsInicial
  /\ sessoes = SessoesIniciais
  /\ \E l \in LinhasDescricao : ds = [DsInicial EXCEPT !.linha = l]

ExtrairDescricao ==
  /\ ~ds.feito
  /\ ds' = [ds EXCEPT !.feito = TRUE,
                      !.descricao = extrair_descricao_linha(ds.linha)]
  /\ UNCHANGED << vars_app, cl, ex, tx, rs, sessoes, vars_caixa, vars_cli, vars_login >>

NextDescricao == ExtrairDescricao

SpecDescricao == InitDescricao /\ [][NextDescricao]_vars

(***************************************************************************)
(* Two sessions press "Salvar regras de categorizacao".  Each session's     *)
(* script run is its own thread; the handler reads the file                *)
(* (carregar_regras), loops over its edited frame and writes the whole     *)
(* table (salvar_regras), with no lock around the two file accesses.       *)
(***************************************************************************)
InitSessoes ==
  /\ arquivo_itau = NoFile
  /\ arquivo_pag = NoFile
  /\ saldo_inicial_input = <<"0">>
  /\ regras_arquivo \in ArquivosRegras
  /\ categorias_arquivo = CategoriasSemArquivo
  /\ df_caixa_global = CaixaVazio
  /\ fech = FechamentoInicial(<<>>)
  /\ edicoes = SemEdicoes
  /\ n_commits = 0
  /\ n_itau = 0
  /\ n_pag = 0
  /\ commit = SemCommit
  /\ cl = ClInicial
  /\ ex = ExInicial
  /\ tx = TxInicial
  /\ LoginParado
  /\ CliParado
  /\ CaixaParado
  /\ rs = RsInicial
  /\ ds = DsInicial
  /\ \E a \in QuadrosEditados("A"), b \in QuadrosEditados("B") :
       sessoes = [s \in Sessoes |->
                    [SessaoInicial EXCEPT !.edited_df = IF s = "A" THEN a ELSE b]]

\* regras = carregar_regras() (line 1722)
CarregarRegras(s) ==
  /\ sessoes[s].pc = "editor"
  /\ sessoes' = [sessoes EXCEPT ![s].pc = "carregou",
                                ![s].regras = carregar_regras(regras_arquivo)]
  /\ UNCHANGED << vars_app, cl, ex, tx, rs, ds, vars_caixa, vars_cli, vars_login >>

\* the loop over edited_df and salvar_regras(regras) (lines 1724-1733)
GravarRegras(s) ==
  /\ sessoes[s].pc = "carregou"
  /\ regras_arquivo' =
       salvar_regras(regras_apos_edicao(sessoes[s].regras, sessoes[s].edited_df))
  /\ sessoes' = [sessoes EXCEPT ![s].pc = "salvou"]
  /\ UNCHANGED << arquivo_itau, arquivo_pag, saldo_inicial_input, categorias_arquivo,
                  df_caixa_global, fech, edicoes, n_commits, n_itau, n_pag, commit,
                  cl, ex, tx, rs, ds, vars_caixa, vars_cli, vars_login >>

NextSessoes == \E s \in Sessoes : CarregarRegras(s) \/ GravarRegras(s)

SpecSessoes == InitSessoes /\ [][NextSessoes]_vars

(***************************************************************************)
(* The cash ledger: each session caches the Drive file at its first script *)
(* run and "Salvar lancamentos de dinheiro" writes the cache, changed, back *)
(***************************************************************************)
InitCaixa ==
  /\ SessaoParada
  /\ LoginParado
  /\ CliParado
  /\ rs = RsInicial
  /\ ds = DsInicial
  /\ sessoes = SessoesIniciais
  /\ caixa_drive \in LivrosNoDrive
  /\ caixa_sessao = [s \in Sessoes |-> CaixaSessaoInicial]
  /\ caixa_hist = <<>>

\* lines 1102-1108: the first script run of a session loads the ledger
CarregarCaixa(s) ==
  /\ ~caixa_sessao[s].carregado
  /\ caixa_sessao' = [caixa_sessao EXCEPT ![s] =
                        [carregado |-> TRUE, df_caixa_global |-> caixa_drive]]
  /\ UNCHANGED << vars_app, cl, ex, tx, rs, ds, sessoes, caixa_drive, caixa_hist, vars_cli, vars_login >>

\* lines 1449-1469, with the period name of the sidebar and the rows added in
\* the editor to those it showed
salvar_caixa(s, nome_periodo, df_din_limpo, df_global) ==
  /\ caixa_sessao' = [caixa_sessao EXCEPT ![s].df_caixa_global =
                        novo_global(df_global, get_ano_mes(nome_periodo), df_din_limpo)]
  /\ caixa_drive' = novo_global(df_global, get_ano_mes(nome_periodo), df_din_limpo)
  /\ caixa_hist' = Append(caixa_hist,
                          [sessao |-> s, nome_periodo |-> nome_periodo,
                           df_global |-> df_global, df_din_limpo |-> df_din_limpo,
                           df_novo_global |->
                             novo_global(df_global, get_ano_mes(nome_periodo),
                                         df_din_limpo)])

SalvarCaixa(s, nome_periodo, novas) ==
  /\ caixa_sessao[s].carregado
  /\ Len(caixa_hist) < MaxSalvamentos
  /\ salvar_caixa(s, nome_periodo,
                  limpar(editor_inicial(dinheiro_periodo(caixa_sessao[s].df_caixa_global,
                                                         get_ano_mes(nome_periodo)))
                           \o novas),
                  caixa_sessao[s].df_caixa_global)
  /\ UNCHANGED << vars_app, cl, ex, tx, rs, ds, sessoes, vars_cli, vars_login >>

NextCaixa ==
  \E s \in Sessoes :
    \/ CarregarCaixa(s)
    \/ \E n \in NomesPeriodo, novas \in NovasLinhas(s) : SalvarCaixa(s, n, novas)

SpecCaixa == InitCaixa /\ [][NextCaixa]_vars

(***************************************************************************)
(* The rows of a statement given to the adapters and classifiers of both   *)
(* programs                                                                *)
(***************************************************************************)
InitCli ==
  /\ SessaoParada
  /\ LoginParado
  /\ rs = RsInicial
  /\ ds = DsInicial
  /\ sessoes = SessoesIniciais
  /\ CaixaParado
  /\ \/ \E f \in ExtratosItau \cup ExtratosFolha :
          cli = [CliInicial EXCEPT !.conta = "Itau",
                                   !.linhas = ler_arquivo_tabela_upload(f).linhas]
     \/ \E f \in ExtratosPag :
          cli = [CliInicial EXCEPT !.conta = "PagSeguro",
                                   !.linhas = ler_arquivo_tabela_upload(f).linhas]

categorias_app(movimentos) ==
  [i \in 1..Len(movimentos) |-> classificar_categoria(movimentos[i], <<>>)]
categorias_cli(movimentos) ==
  [i \in 1..Len(movimentos) |-> classificar_categoria_cli(movimentos[i])]

comparar(app, res_cli) ==
  cli' = [cli EXCEPT !.feito = TRUE, !.app = app, !.cli = res_cli,
                     !.cats_app = categorias_app(app.movimentos),
                     !.cats_cli = categorias_cli(res_cli.movimentos)]

CompararItau ==
  /\ ~cli.feito /\ cli.conta = "Itau"
  /\ comparar(ler_e_processar_itau([ok |-> TRUE, linhas |-> cli.linhas]),
              carregar_extrato_itau(cli.linhas))
  /\ UNCHANGED << vars_app, cl, ex, tx, rs, ds, sessoes, vars_caixa, vars_login >>

CompararPagSeguro ==
  /\ ~cli.feito /\ cli.conta = "PagSeguro"
  /\ comparar(ler_e_processar_pagseguro([ok |-> TRUE, linhas |-> cli.linhas]),
              carregar_extrato_pagseguro(cli.linhas))
  /\ UNCHANGED << vars_app, cl, ex, tx, rs, ds, sessoes, vars_caixa, vars_login >>

NextCli == CompararItau \/ CompararPagSeguro

SpecCli == InitCli /\ [][NextCli]_vars

(***************************************************************************)
(* Login: users and roles from the secrets, the login form, the role gate  *)
(* of the tabs and the logout button                                       *)
(***************************************************************************)
\* d.get(key, default)
get_default(d, key, default) == IF has_key(d, key) THEN get(d, key) ELSE default

\* d.pop(key, None)
RECURSIVE dict_pop(_, _)
dict_pop(d, key) ==
  IF d = <<>> THEN <<>>
  ELSE IF Head(d).k = key THEN dict_pop(Tail(d), key)
  ELSE <<Head(d)>> \o dict_pop(Tail(d), key)

\* st.secrets["auth_users"], {} when the section is missing
users_section(sec) ==
  IF has_key(sec, "auth_users") THEN get(sec, "auth_users") ELSE <<>>

\* one entry of users: the password as configured, the role lower-cased
user_entry(cfg) ==
  << [k |-> "password", v |-> get(cfg, "password")],
     [k |-> "role",
      v |-> PyStr(lower(strip(pystr(get_default(cfg, "role", PyStr(<<"o", "p", "e", "r", "a", "d", "o", "r">>))))))] >>

load_users_from_secrets(sec) ==
  [i \in 1..Len(users_section(sec)) |->
     [k |-> users_section(sec)[i].k, v |-> user_entry(users_section(sec)[i].v)]]

current_user(ss) == get(ss, "user")

current_role(ss) == get_default(ss, "role", PyStr(<<"o", "p", "e", "r", "a", "d", "o", "r">>))

\* a faulty variant: any session that has a role passes
has_role_com_qualquer_papel(ss, roles) == has_key(ss, "role")

has_role(ss, roles) ==
  in_list(current_role(ss),
          [i \in 1..Len(roles) |-> PyStr(lower(strip(roles[i])))])

\* the three assignments of a successful submit
entrar_na_sessao(ss, user, role) ==
  dict_set(dict_set(dict_set(ss, "auth_ok", PyTrue), "user", user), "role", role)

\* the branch of check_auth under "if entrar": [ss, fim, erro], fim being
\* "rerun" after st.rerun() and "stop" when the function falls to st.stop()
submit_login(sec, users, ss, username, senha) ==
  IF users # <<>>
  THEN IF ~has_key(users, username)
       THEN [ss |-> ss, fim |-> "stop", erro |-> "usuario nao encontrado"]
       ELSE IF PyStr(senha) = get(get(users, username), "password")
       THEN [ss |-> entrar_na_sessao(ss, PyStr(username),
                                     get_default(get(users, username), "role",
                                                 PyStr(<<"o", "p", "e", "r", "a", "d", "o", "r">>))),
             fim |-> "rerun", erro |-> ""]
       ELSE [ss |-> ss, fim |-> "stop", erro |-> "senha incorreta"]
  ELSE IF get(sec, "APP_PASSWORD") = PyNone
       THEN [ss |-> ss, fim |-> "stop", erro |-> "nada configurado"]
       ELSE IF PyStr(senha) = get(sec, "APP_PASSWORD")
       THEN [ss |-> entrar_na_sessao(ss, pyor(PyStr(username), PyStr(<<"a", "d", "m", "i", "n">>)),
                                     PyStr(<<"a", "d", "m", "i", "n">>)),
             fim |-> "rerun", erro |-> ""]
       ELSE [ss |-> ss, fim |-> "stop", erro |-> "senha incorreta"]

\* check_auth: fim = "return" when the session is already authenticated
check_auth(sec, ss, ev) ==
  IF truthy(get(ss, "auth_ok"))
  THEN [ss |-> ss, fim |-> "return", erro |-> ""]
  ELSE IF ev.entrar
       THEN submit_login(sec, load_users_from_secrets(sec), ss, ev.username, ev.senha)
       ELSE [ss |-> ss, fim |-> "stop", erro |-> ""]

\* the tabs in the order of the script; all but the first call require_role("admin")
Abas == << "Caixa", "Fechamento", "Conferencia", "Historico" >>
papeis_exigidos(aba) == IF aba = "Caixa" THEN <<>> ELSE << <<"a", "d", "m", "i", "n">> >>

\* require_role: TRUE when the tab goes on, FALSE when it warns and stops the script
require_role(ss, roles) == has_role(ss, roles)

\* the "with tab" blocks from the i-th on: [abas, aviso]
RECURSIVE abas_desde(_, _, _)
abas_desde(ss, i, feitas) ==
  IF i > Len(Abas) THEN [abas |-> feitas, aviso |-> FALSE]
  ELSE IF papeis_exigidos(Abas[i]) # <<>> /\ ~require_role(ss, papeis_exigidos(Abas[i]))
  THEN [abas |-> feitas, aviso |-> TRUE]
  ELSE abas_desde(ss, i + 1, Append(feitas, Abas[i]))

\* the widget events a script run can see
SemEvento == [nome |-> "rerun", entrar |-> FALSE, sair |-> FALSE,
              username |-> <<>>, senha |-> <<>>]

tela_de_login(ev, res) ==
  [evento |-> ev.nome, username |-> ev.username, senha |-> ev.senha,
   login_form |-> TRUE, erro |-> res.erro, sair_visivel |-> FALSE,
   fechamento |-> FALSE, abas |-> <<>>, aviso |-> FALSE]

tela_do_painel(ev, ss) ==
  [evento |-> ev.nome, username |-> ev.username, senha |-> ev.senha,
   login_form |-> FALSE, erro |-> "", sair_visivel |-> TRUE,
   fechamento |-> TRUE, abas |-> abas_desde(ss, 1, <<>>).abas,
   aviso |-> abas_desde(ss, 1, <<>>).aviso]

\* one run of the script and the reruns it asks for: check_auth, the sidebar
\* with the logout button, the closing computation and the tabs.  origem is
\* the event of the first run, which the rerun no longer sees
RECURSIVE script(_, _, _, _)
script(sec, ss, ev, origem) ==
  IF check_auth(sec, ss, ev).fim = "rerun"
  THEN script(sec, check_auth(sec, ss, ev).ss, SemEvento, origem)
  ELSE IF check_auth(sec, ss, ev).fim = "stop"
  THEN [ss |-> ss, tela |-> tela_de_login(origem, check_auth(sec, ss, ev))]
  ELSE IF ev.sair
  THEN script(sec, dict_pop(dict_pop(dict_pop(ss, "auth_ok"), "user"), "role"),
              SemEvento, origem)
  ELSE [ss |-> ss, tela |-> tela_do_painel(origem, ss)]

\* the entries of [auth_users] and the APP_PASSWORD of the deployments
UsuarioRicardo == <<"r", "i", "c", "a", "r", "d", "o">>
UsuarioAna == <<"a", "n", "a">>
Senha1 == <<"s", "1">>
Senha2 == <<"s", "2">>
Cfg(password, role) ==
  (IF password.t = "none" THEN <<>> ELSE << [k |-> "password", v |-> password] >>)
    \o (IF role.t = "none" THEN <<>> ELSE << [k |-> "role", v |-> role] >>)
DoisUsuarios(c1, c2) ==
  << [k |-> UsuarioRicardo, v |-> c1], [k |-> UsuarioAna, v |-> c2] >>
AppPassword(app_password) ==
  IF app_password.t = "none" THEN <<>>
  ELSE << [k |-> "APP_PASSWORD", v |-> app_password] >>
ComUsuarios(users, app_password) ==
  << [k |-> "auth_users", v |-> users] >> \o AppPassword(app_password)
Segredos ==
  << ComUsuarios(DoisUsuarios(Cfg(PyStr(Senha1), PyStr(<<"a", "d", "m", "i", "n">>)),
                              Cfg(PyStr(Senha2), PyStr(<<"o", "p", "e", "r", "a", "d", "o", "r">>))), PyNone),
     ComUsuarios(DoisUsuarios(Cfg(PyStr(Senha1), PyStr(<<" ", "A", "d", "m", "i", "n">>)),
                              Cfg(PyStr(Senha2), PyNone)), PyStr(Senha2)),
     ComUsuarios(DoisUsuarios(Cfg(PyStr(Senha1), PyStr(<<"f", "i", "n", "a", "n", "c", "e", "i", "r", "o">>)),
                              Cfg(PyNone, PyStr(<<"a", "d", "m", "i", "n">>))), PyNone),
     ComUsuarios(DoisUsuarios(Cfg(PyNum(100), PyStr(<<"a", "d", "m", "i", "n">>)),
                              Cfg(PyStr(<<>>), PyStr(<<"A", "D", "M", "I", "N">>))), PyNone),
     ComUsuarios(<<>>, PyStr(Senha2)),
     AppPassword(PyStr(Senha1)),
     AppPassword(PyNone),
     AppPassword(PyNum(100)) >>
NomesDigitados == { UsuarioRicardo, UsuarioAna, <<"x">>, <<>> }
SenhasDigitadas == { Senha1, Senha2, <<"1", ".", "0", "0">>, <<>> }

\* a browser opens the app: the first run of the script on an empty session
InitLogin ==
  /\ SessaoParada
  /\ rs = RsInicial
  /\ ds = DsInicial
  /\ sessoes = SessoesIniciais
  /\ CaixaParado
  /\ CliParado
  /\ \E i \in 1..Len(Segredos) : secrets = Segredos[i]
  /\ session_state = <<>>
  /\ tela = script(secrets, <<>>, [SemEvento EXCEPT !.nome = "inicio"],
                   [SemEvento EXCEPT !.nome = "inicio"]).tela

rodar(ev) ==
  /\ session_state' = script(secrets, session_state, ev, ev).ss
  /\ tela' = script(secrets, session_state, ev, ev).tela
  /\ UNCHANGED << vars_app, cl, ex, tx, rs, ds, sessoes, vars_caixa, vars_cli, secrets >>

\* the "Entrar" button of the login form
Entrar(username, senha) ==
  /\ tela.login_form
  /\ rodar([nome |-> "entrar", entrar |-> TRUE, sair |-> FALSE,
            username |-> username, senha |-> senha])

\* any other widget event of a page already drawn: the script runs again
Rerun ==
  /\ tela.evento # ""
  /\ rodar(SemEvento)

\* the "Sair" button of the sidebar
Sair ==
  /\ tela.sair_visivel
  /\ rodar([SemEvento EXCEPT !.nome = "sair", !.sair = TRUE])

NextLogin ==
  \/ \E username \in NomesDigitados, senha \in SenhasDigitadas : Entrar(username, senha)
  \/ Rerun
  \/ Sair

SpecLogin == InitLogin /\ [][NextLogin]_vars

(***************************************************************************)
(* Properties                                                              *)
(***************************************************************************)
RECURSIVE SomaValores(_)
SomaValores(movs) ==
  IF movs = <<>> THEN 0 ELSE Head(movs).valor + SomaValores(Tail(movs))

RECURSIVE SomaPositivos(_)
SomaPositivos(movs) ==
  IF movs = <<>> THEN 0
  ELSE (IF Head(movs).valor > 0 THEN Head(movs).valor ELSE 0)
         + SomaPositivos(Tail(movs))

RECURSIVE SomaNegativos(_)
SomaNegativos(movs) ==
  IF movs = <<>> THEN 0
  ELSE (IF Head(movs).valor < 0 THEN Head(movs).valor ELSE 0)
         + SomaNegativos(Tail(movs))

\* the classified transaction's normalized description, and the rules that match it
DescNormCl == normalizar_texto(cl.mov.descricao)
RegrasQueCasam == {i \in 1..Len(cl.regras) : contains(cl.regras[i].k, DescNormCl)}

\* C1: when some rule-table pattern is a substring of the normalized
\* description, the category returned is the one of the first such rule in table
\* order, also when a hardcoded keyword matches; a keyword category or the sign
\* default is returned only when no pattern matches.
C1_RegraAprendidaVence ==
  cl.feito /\ RegrasQueCasam # {} =>
    \E i \in RegrasQueCasam :
      /\ \A j \in RegrasQueCasam : i <= j
      /\ cl.cat = cl.regras[i].v

\* a learned rule and the hardcoded card keyword both match; the rule's category wins
C1_Witness ==
  /\ cl.feito
  /\ RegrasQueCasam # {}
  /\ categoria_palavra_chave(DescNormCl) = CatCartao
  /\ cl.cat = CatCustom

\* C4 (as stated): every classification returns a non-empty category label.
C4_CategoriaNaoVazia == cl.feito => cl.cat # ""

\* C5: with no matching rule-table pattern and no matching keyword, the category
\* is Vendas / Receitas for a positive amount, Fornecedores e Insumos for a
\* negative one and A Classificar for zero.
C5_PadraoPeloSinal ==
  cl.feito /\ RegrasQueCasam = {} /\ categoria_palavra_chave(DescNormCl) = "" =>
    /\ cl.mov.valor > 0 => cl.cat = "Vendas / Receitas"
    /\ cl.mov.valor < 0 => cl.cat = "Fornecedores e Insumos"
    /\ cl.mov.valor = 0 => cl.cat = "A Classificar"

\* a zero-amount transaction that nothing matches is left to classify
C5_Witness ==
  /\ cl.feito
  /\ RegrasQueCasam = {}
  /\ categoria_palavra_chave(DescNormCl) = ""
  /\ cl.mov.valor = 0
  /\ cl.cat = "A Classificar"

\* the raw rows of the adapter trial's statement in which both the entries cell
\* (third column) and the exits cell (fourth column) parse to a non-zero amount
LinhasComEntradaESaida ==
  {i \in 2..Len(ex.arquivo.raw) :
     /\ Len(ex.arquivo.raw[i]) >= 4
     /\ parse_numero_br(ex.arquivo.raw[i][3]).ok
     /\ parse_numero_br(ex.arquivo.raw[i][3]).v # 0
     /\ parse_numero_br(ex.arquivo.raw[i][4]).ok
     /\ parse_numero_br(ex.arquivo.raw[i][4]).v # 0}

\* C7 (as stated): for both adapters entries_total is the sum of the positive
\* emitted amounts, exits_total the sum of the negative ones, and
\* result = entries_total + exits_total.
C7_TotaisPeloSinal ==
  ex.feito /\ ex.res.erro = "" =>
    /\ ex.res.entradas = SomaPositivos(ex.res.movimentos)
    /\ ex.res.saidas = SomaNegativos(ex.res.movimentos)
    /\ ex.res.resultado = ex.res.entradas + ex.res.saidas

\* C7 (amended): result = entries_total + exits_total = the sum of the emitted
\* amounts for both adapters; the bank adapter's totals are the sums of the
\* positive and of the negative amounts; the processor adapter's totals are gross
\* (entries_total >= the positive sum, exits_total <= the negative sum) and equal
\* the sign sums when no row has both fields non-zero.
C7_TotaisDosAdaptadores ==
  ex.feito /\ ex.res.erro = "" =>
    /\ ex.res.resultado = ex.res.entradas + ex.res.saidas
    /\ ex.res.resultado = SomaValores(ex.res.movimentos)
    /\ ex.res.entradas >= SomaPositivos(ex.res.movimentos)
    /\ ex.res.saidas <= SomaNegativos(ex.res.movimentos)
    /\ ex.conta = "Itau" \/ LinhasComEntradaESaida = {} =>
         /\ ex.res.entradas = SomaPositivos(ex.res.movimentos)
         /\ ex.res.saidas = SomaNegativos(ex.res.movimentos)

\* a processor statement whose only row has entries 30,00 and exits 20,00
C7_Witness ==
  /\ ex.feito
  /\ ex.conta = "PagSeguro"
  /\ ex.res.erro = ""
  /\ LinhasComEntradaESaida # {}
  /\ ex.res.entradas = 3000
  /\ ex.res.saidas = 0 - 2000
  /\ Len(ex.res.movimentos) = 1
  /\ ex.res.movimentos[1].valor = 1000

\* the column names of the adapter trial's statement (its first row)
ColunasEx ==
  {normalizar_texto(PyStr(strip(pystr(ex.arquivo.raw[1][i])))) :
     i \in 1..Len(ex.arquivo.raw[1])}
SemColunaDeValor ==
  /\ ex.arquivo.raw # <<>>
  /\ \A c \in ColunasEx :
       /\ c \notin {<<"V", "A", "L", "O", "R">>, <<"V", "A", "L", "O", "R", " ", "(", "R", "$", ")">>, <<"E", "N", "T", "R", "A", "D", "A", "S">>, <<"S", "A", "I", "D", "A", "S">>}
       /\ ~contains(<<"D", "E", "B", "I", "T", "O">>, c)
       /\ ~contains(<<"C", "R", "E", "D", "I", "T", "O">>, c)

\* C10 (as stated): a statement with none of the amount columns makes the
\* adapter fail with a format error instead of emitting zero-value transactions.
C10_SemColunaErroDeFormato ==
  ex.feito /\ SemColunaDeValor => ex.res.erro = "RuntimeError"

\* both uploaders hold a file and the opening balance parses: the run reaches
\* the adapters
ExtratosEnviados ==
  /\ arquivo_itau # NoFile
  /\ arquivo_pag # NoFile
  /\ parse_numero_br(PyStr(saldo_inicial_input)).ok

\* the rows of a committed frame that carry a description and a category
LinhasComRegra(df) ==
  {i \in 1..Len(df) : truthy(df[i].Descricao) /\ df[i].Categoria # ""}

\* C2 (as stated): in the closing run that follows a rule commit, every
\* transaction the commit showed with a non-empty description and a category is
\* classified with that category.
C2_AprendizadoTemEfeito ==
  commit.feito =>
    \A i \in LinhasComRegra(commit.edited_df) :
      /\ i \in 1..Len(fech.df_mov)
      /\ fech.df_mov[i].Categoria = commit.edited_df[i].Categoria

\* the rows of the committed frame whose category the user changed
LinhasEditadas ==
  {i \in DOMAIN commit.edicoes : commit.edicoes[i] # commit.df_mov[i].Categoria}

\* C3 (as stated): a commit with exactly one changed category leaves the table
\* it loaded with exactly that one entry set and nothing else changed.
C3_UmaEdicaoUmaRegra ==
  commit.feito /\ Cardinality(LinhasEditadas) = 1 =>
    \A i \in LinhasEditadas :
      commit.edicoes[i] # "" =>
        carregar_regras(regras_arquivo)
          = dict_set(commit.regras,
                     normalizar_texto(commit.edited_df[i].Descricao),
                     commit.edicoes[i])

ChavesDe(regras) == {regras[i].k : i \in 1..Len(regras)}
ValorDe(regras, k) == regras[CHOOSE i \in 1..Len(regras) : regras[i].k = k].v
ChaveDaLinha(i) == normalizar_texto(commit.edited_df[i].Descricao)
ChavesGravadas == {ChaveDaLinha(i) : i \in LinhasComRegra(commit.edited_df)}

\* C3 (amended): a commit writes one entry for every displayed row that has a
\* description and a category, edited or not (normalized description -> the
\* category of the last such row with that description); the entries of the
\* loaded table under other keys are unchanged and no other key appears.
C3_RegrasDeTodasAsLinhas ==
  commit.feito =>
    /\ regras_arquivo.tipo = "dict"
    /\ ChavesDe(regras_arquivo.regras) = ChavesDe(commit.regras) \cup ChavesGravadas
    /\ \A i \in LinhasComRegra(commit.edited_df) :
         (\A j \in LinhasComRegra(commit.edited_df) :
            ChaveDaLinha(j) = ChaveDaLinha(i) => j <= i)
         => ValorDe(regras_arquivo.regras, ChaveDaLinha(i))
              = commit.edited_df[i].Categoria
    /\ \A k \in ChavesDe(commit.regras) \ ChavesGravadas :
         ValorDe(regras_arquivo.regras, k) = ValorDe(commit.regras, k)

\* one category was changed and the commit wrote a rule for the other rows too
C3_Witness ==
  /\ commit.feito
  /\ Cardinality(LinhasEditadas) = 1
  /\ \A i \in LinhasEditadas : commit.edicoes[i] = CatCustom
  /\ \E i \in LinhasComRegra(commit.edited_df) \ LinhasEditadas :
       ChaveDaLinha(i) \in ChavesDe(regras_arquivo.regras) \ ChavesDe(commit.regras)

RECURSIVE SomaValoresDf(_)
SomaValoresDf(df) ==
  IF df = <<>> THEN 0 ELSE Head(df).Valor + SomaValoresDf(Tail(df))

\* C6 (as stated): after a successful closing run resultado_consolidado is the
\* sum of the amounts of the run's movements, entradas_totais >= 0,
\* saidas_totais <= 0 and resultado_consolidado = entradas_totais + saidas_totais.
C6_ResultadoSomaDosMovimentos ==
  fech.dados_carregados =>
    /\ fech.resultado_consolidado = SomaValoresDf(fech.df_mov)
    /\ fech.entradas_totais >= 0
    /\ fech.saidas_totais <= 0
    /\ fech.resultado_consolidado = fech.entradas_totais + fech.saidas_totais

\* the uploaded bank statement has a row whose Valor cell does not parse
ValorIlegivelItau ==
  \E i \in 2..Len(arquivo_itau.raw) :
    \E j \in 1..Len(arquivo_itau.raw[i]) :
      /\ pystr(arquivo_itau.raw[1][j]) = <<"V", "a", "l", "o", "r">>
      /\ ~parse_numero_br(arquivo_itau.raw[i][j]).ok

\* C8 (as stated): a run over a bank statement with an unparseable amount cell
\* and a readable processor statement does not abort; the closing is produced
\* and the row is a zero-value movement.
C8_CelulaIlegivelViraZero ==
  ExtratosEnviados /\ ValorIlegivelItau /\ arquivo_pag.suffix \in SufixosCsv =>
    /\ fech.excecao = ""
    /\ fech.dados_carregados
    /\ \E i \in 1..Len(fech.df_mov) :
         fech.df_mov[i].Conta = "Itau" /\ fech.df_mov[i].Valor = 0

SufixoNaoSuportado(f) == f.suffix \notin SufixosCsv \cup SufixosExcel

CategoriaHeuristica(descricao, valor) ==
  IF categoria_palavra_chave(normalizar_texto(descricao)) # ""
  THEN categoria_palavra_chave(normalizar_texto(descricao))
  ELSE IF valor > 0 THEN CatVendas
  ELSE IF valor < 0 THEN CatFornecedores
  ELSE CatAClassificar

\* both statements are read and processed without an error
ExtratosLegiveis ==
  /\ carregar_extrato_itau_upload(arquivo_itau).erro = ""
  /\ carregar_extrato_pagseguro_upload(arquivo_pag).erro = ""

\* C11: while the rule file is missing, unreadable or holds no JSON object,
\* carregar_regras gives the empty table, a run over readable statements
\* completes, and every movement carries the category of the keyword chain or,
\* failing that, of the sign of its amount.
C11_SemTabelaSoHeuristicas ==
  regras_arquivo.tipo # "dict" =>
    /\ carregar_regras(regras_arquivo) = <<>>
    /\ fech.REGRAS_CATEGORIA = <<>>
    /\ (ExtratosEnviados /\ ExtratosLegiveis =>
          fech.dados_carregados /\ fech.excecao = "" /\ fech.mensagem_erro = "")
    /\ \A i \in 1..Len(fech.df_mov) :
         fech.df_mov[i].Categoria
           = CategoriaHeuristica(fech.df_mov[i].Descricao, fech.df_mov[i].Valor)

\* a run completed over a rule file that holds a JSON list, with a movement
\* that an entry of that list would have matched
C11_Witness ==
  /\ regras_arquivo.tipo = "nao_dict"
  /\ fech.dados_carregados
  /\ \E i \in 1..Len(fech.df_mov) :
       /\ contains(<<"P", "I", "X">>, normalizar_texto(fech.df_mov[i].Descricao))
       /\ fech.df_mov[i].Categoria # CatCustom

\* the sheet read has three rows of letterhead and Data, Historico, Valor in row 4
CartaECabecalhoHistorico ==
  /\ ex.arquivo.suffix \in SufixosExcel
  /\ Len(ex.arquivo.raw) >= 4
  /\ SubSeq(ex.arquivo.raw, 1, 3) = Carta
  /\ ex.arquivo.raw[4] = CabecalhoHistorico

\* rows 5 and later of the sheet that have a value in some cell
LinhasDeDadosEx ==
  SelectSeq(SubSeq(ex.arquivo.raw, 5, Len(ex.arquivo.raw)),
            LAMBDA r : \E i \in 1..Len(r) : r[i] \notin {PyNaN, PyNone})

\* C12 (as stated): for a sheet with three letterhead rows and the cells Data,
\* Historico, Valor in row 4, the rows read are exactly the non-empty rows 5 and
\* later, under the column names Data, Historico, Valor.
C12_CabecalhoNaLinhaQuatro ==
  ex.feito /\ CartaECabecalhoHistorico =>
    /\ ex.lido.ok
    /\ ex.lido.linhas
         = [r \in 1..Len(LinhasDeDadosEx) |->
              << [k |-> <<"D", "a", "t", "a">>, v |-> LinhasDeDadosEx[r][1]],
                 [k |-> <<"H", "i", "s", "t", "o'", "r", "i", "c", "o">>, v |-> LinhasDeDadosEx[r][2]],
                 [k |-> <<"V", "a", "l", "o", "r">>, v |-> LinhasDeDadosEx[r][3]] >>]

\* the session holds the statements of the worked example: bank rows
\* SALARIO CAROLINE 1000,00 and ENERGIA ELETRICA CEEE -200,00, one processor row
\* with Entradas 500,00, opening balance 300,00, no rule and no cash entry
CenarioExemplo ==
  /\ arquivo_itau = ItauC
  /\ arquivo_pag = PagA
  /\ saldo_inicial_input = <<"3", "0", "0", ",", "0", "0">>
  /\ regras_arquivo.tipo # "dict"
  /\ df_caixa_global = CaixaVazio

\* C13: in the worked example the run gives entradas_totais 1500.00,
\* saidas_totais -200.00, resultado 1300.00, saldo_final 1600.00 and the summary
\* by category is Folha de Pagamento 1000.00 in, Energia Eletrica 200.00 out,
\* Vendas / Receitas 500.00 in, and nothing else.
C13_ExemploCompleto ==
  CenarioExemplo =>
    /\ fech.dados_carregados
    /\ fech.entradas_totais = 150000
    /\ fech.saidas_totais = 0 - 20000
    /\ fech.resultado_consolidado = 130000
    /\ fech.saldo_final = 160000
    /\ fech.dados_cat
         = { [Categoria |-> CatFolha, Entradas |-> 100000, Saidas |-> 0],
             [Categoria |-> CatEnergia, Entradas |-> 0, Saidas |-> 0 - 20000],
             [Categoria |-> CatVendas, Entradas |-> 50000, Saidas |-> 0] }

\* the run over the worked example has produced its three movements
C13_Witness ==
  /\ CenarioExemplo
  /\ fech.dados_carregados
  /\ Len(fech.df_mov) = 3

\* C14: the rule file changes only in a step that is a rule commit, and no
\* step removes a key that carregar_regras could read before it; closing runs,
\* edits in the editor and additions to the category list leave the file as
\* it is.
C14_SoCommitEscreveSemRemover ==
  [][ /\ (regras_arquivo' # regras_arquivo => commit'.feito)
      /\ ChavesDe(carregar_regras(regras_arquivo))
           \subseteq ChavesDe(carregar_regras(regras_arquivo')) ]_vars

\* a commit over a table that held rules, after a category was added to the
\* list, wrote new keys and kept the old ones
C14_Witness ==
  /\ commit.feito
  /\ commit.regras # <<>>
  /\ categorias_arquivo.tipo = "lista"
  /\ ChavesDe(commit.regras) # ChavesDe(carregar_regras(regras_arquivo))

\* the balance markers of each account, looked for in a normalized description
MarcadoresSaldo ==
  IF ex.conta = "Itau"
  THEN {<<"S", "A", "L", "D", "O", " ", "A", "N", "T", "E", "R", "I", "O", "R">>, <<"S", "A", "L", "D", "O", " ", "T", "O", "T", "A", "L", " ", "D", "I", "S", "P", "O", "N", "I", "V", "E", "L", " ", "D", "I", "A">>, <<"S", "A", "L", "D", "O", " ", "D", "O", " ", "D", "I", "A">>}
  ELSE {<<"S", "A", "L", "D", "O", " ", "D", "O", " ", "D", "I", "A">>, <<"S", "A", "L", "D", "O", " ", "D", "I", "A">>}

TemMarcadorDeSaldo(descricao) ==
  \E m \in MarcadoresSaldo : contains(m, normalizar_texto(descricao))

\* the rows read from the statement that are balance snapshots, and the
\* statement without them
LinhaDeSaldo(linha) == TemMarcadorDeSaldo(extrair_descricao_linha(linha))
LidoSemSaldos ==
  [ok |-> ex.lido.ok,
   linhas |-> SelectSeq(ex.lido.linhas, LAMBDA l : ~LinhaDeSaldo(l))]

\* C15: no movement an adapter emits has a balance marker in its normalized
\* description, and the adapter's result (totals, movements, or error) is the
\* one it gives for the same statement with the balance rows taken out: such a
\* row adds nothing, whatever its amount cell holds.
C15_SaldosNaoSaoMovimentos ==
  ex.feito =>
    /\ \A i \in 1..Len(ex.res.movimentos) :
         ~TemMarcadorDeSaldo(ex.res.movimentos[i].descricao)
    /\ ex.res = IF ex.conta = "Itau" THEN ler_e_processar_itau(LidoSemSaldos)
                ELSE ler_e_processar_pagseguro(LidoSemSaldos)

\* a statement with a balance row that carries an amount, next to a movement,
\* was processed
C15_Witness ==
  /\ ex.feito
  /\ ex.res.erro = ""
  /\ ex.res.movimentos # <<>>
  /\ \E i \in 1..Len(ex.lido.linhas) :
       /\ LinhaDeSaldo(ex.lido.linhas[i])
       /\ \E j \in 1..Len(ex.lido.linhas[i]) :
            ex.lido.linhas[i][j].v \in {PyStr(<<"9", "9", "9", ",", "0", "0">>), PyStr(<<"a", "b", "c">>),
                                        PyStr(<<"5", "0", "0", ",", "0", "0">>)}

\* the rows read from the statement that the adapter retains
LinhasRetidas == LidoSemSaldos.linhas

\* the unified value cell of a row: the first of Valor, VALOR, valor, Valor (R$)
\* that is present and not falsy, 0 when there is none
NomesValor == << <<"V", "a", "l", "o", "r">>, <<"V", "A", "L", "O", "R">>, <<"v", "a", "l", "o", "r">>, <<"V", "a", "l", "o", "r", " ", "(", "R", "$", ")">> >>
CampoValor(linha) ==
  LET presentes == {n \in 1..Len(NomesValor) :
                      \E j \in 1..Len(linha) :
                        linha[j].k = NomesValor[n] /\ truthy(linha[j].v)}
  IN IF presentes = {} THEN PyNum(0)
     ELSE get(linha, NomesValor[CHOOSE n \in presentes :
                                  \A m \in presentes : n <= m])

\* the parsed cell of the (last) column whose normalized name contains the
\* token, 0 when the row has no such column
CampoComNome(linha, token) ==
  LET cols == {j \in 1..Len(linha) :
                 contains(token, normalizar_texto(PyStr(linha[j].k)))}
  IN IF cols = {} THEN 0
     ELSE parse_numero_br(linha[CHOOSE j \in cols : \A m \in cols : m <= j].v).v

ValorResolvido(linha) ==
  IF parse_numero_br(CampoValor(linha)).v # 0
  THEN parse_numero_br(CampoValor(linha)).v
  ELSE CampoComNome(linha, <<"C", "R", "E", "D", "I", "T", "O">>) - CampoComNome(linha, <<"D", "E", "B", "I", "T", "O">>)

\* C16: when the bank adapter processes a statement, it emits one movement per
\* retained row, whose amount is the unified value field if that parses to a
\* non-zero number, whatever the debit and credit columns hold, and credit minus
\* debit otherwise; positive amounts count in entradas only, negative ones in
\* saidas only.
C16_ValorOuCreditoMenosDebito ==
  ex.feito /\ ex.conta = "Itau" /\ ex.res.erro = "" =>
    /\ Len(ex.res.movimentos) = Len(LinhasRetidas)
    /\ \A i \in 1..Len(LinhasRetidas) :
         ex.res.movimentos[i].valor = ValorResolvido(LinhasRetidas[i])
    /\ ex.res.entradas
         = SomaPositivos([i \in 1..Len(LinhasRetidas) |->
                            [valor |-> ValorResolvido(LinhasRetidas[i])]])
    /\ ex.res.saidas
         = SomaNegativos([i \in 1..Len(LinhasRetidas) |->
                            [valor |-> ValorResolvido(LinhasRetidas[i])]])

\* a statement was processed that has a row with a non-zero Valor next to a
\* non-zero debit, and a row with no Valor, Debito 50,00 and Credito 0
C16_Witness ==
  /\ ex.feito /\ ex.conta = "Itau" /\ ex.res.erro = ""
  /\ \E i \in 1..Len(LinhasRetidas) :
       /\ parse_numero_br(CampoValor(LinhasRetidas[i])).v = 0 - 8000
       /\ CampoComNome(LinhasRetidas[i], <<"D", "E", "B", "I", "T", "O">>) = 3000
       /\ ex.res.movimentos[i].valor = 0 - 8000
  /\ \E i \in 1..Len(LinhasRetidas) :
       /\ get(LinhasRetidas[i], <<"V", "a", "l", "o", "r">>) = PyNaN
       /\ ex.res.movimentos[i].valor = 0 - 5000

\* the first cell among the named columns that is present and not falsy, parsed;
\* 0 when there is none
CampoPrimeiro(linha, nomes) ==
  LET presentes == {n \in 1..Len(nomes) :
                      \E j \in 1..Len(linha) :
                        linha[j].k = nomes[n] /\ truthy(linha[j].v)}
  IN IF presentes = {} THEN 0
     ELSE parse_numero_br(
            get(linha, nomes[CHOOSE n \in presentes :
                               \A m \in presentes : n <= m])).v

EntradaDe(linha) ==
  CampoPrimeiro(linha, << <<"E", "n", "t", "r", "a", "d", "a", "s">>, <<"E", "N", "T", "R", "A", "D", "A", "S">>, <<"e", "n", "t", "r", "a", "d", "a", "s">> >>)
SaidaDe(linha) ==
  CampoPrimeiro(linha, << <<"S", "a", "i", "d", "a", "s">>, <<"S", "A", "I", "D", "A", "S">>, <<"S", "a", "i'", "d", "a", "s">>, <<"s", "a", "i'", "d", "a", "s">> >>)

Modulo(x) == IF x >= 0 THEN x ELSE 0 - x

RECURSIVE SomaModulos(_, _)
SomaModulos(linhas, entradas) ==
  IF linhas = <<>> THEN 0
  ELSE Modulo(IF entradas THEN EntradaDe(Head(linhas)) ELSE SaidaDe(Head(linhas)))
       + SomaModulos(Tail(linhas), entradas)

\* C17: when the processor adapter processes a statement, it emits one movement
\* per retained row with amount |entries| - |exits|, entradas is the sum of the
\* |entries| and saidas minus the sum of the |exits| of the retained rows; so
\* entradas is never negative and saidas never positive.
C17_ModulosDeEntradasESaidas ==
  ex.feito /\ ex.conta = "PagSeguro" /\ ex.res.erro = "" =>
    /\ Len(ex.res.movimentos) = Len(LinhasRetidas)
    /\ \A i \in 1..Len(LinhasRetidas) :
         ex.res.movimentos[i].valor
           = Modulo(EntradaDe(LinhasRetidas[i])) - Modulo(SaidaDe(LinhasRetidas[i]))
    /\ ex.res.entradas = SomaModulos(LinhasRetidas, TRUE)
    /\ ex.res.saidas = 0 - SomaModulos(LinhasRetidas, FALSE)
    /\ ex.res.entradas >= 0
    /\ ex.res.saidas <= 0

\* a statement with a row of negative fields and a row Entradas 0, Saidas 20,00
\* was processed
C17_Witness ==
  /\ ex.feito /\ ex.conta = "PagSeguro" /\ ex.res.erro = ""
  /\ \E i \in 1..Len(LinhasRetidas) :
       EntradaDe(LinhasRetidas[i]) < 0 /\ SaidaDe(LinhasRetidas[i]) < 0
  /\ \E i \in 1..Len(LinhasRetidas) :
       /\ EntradaDe(LinhasRetidas[i]) = 0
       /\ SaidaDe(LinhasRetidas[i]) = 2000
       /\ ex.res.movimentos[i].valor = 0 - 2000

\* the amount, in cents, each drawn numeral stands for
ValorDoCorpo(c) ==
  CASE c = <<"1", ".", "2", "3", "4", ",", "5", "6">> -> 123456
    [] c = <<"1", "2", "3", "4", ",", "5", "6">> -> 123456
    [] c = <<"1", "2", "3", "4", ".", "5", "6">> -> 123456
    [] c = <<"1", "0", ",", "5", "0">> -> 1050
    [] c = <<"1", ".", "2", "3", "4", ".", "5", "6", "7", ",", "8", "9">> -> 123456789
    [] c = <<"1", "2", ".", "5">> -> 1250
    [] c = <<"-", "5", "0", ",", "0", "0">> -> 0 - 5000
    [] c = <<"0">> -> 0
    [] c = <<"7">> -> 700
    [] c = <<>> -> 0
    [] c = <<"-">> -> 0

\* C18: parse_numero_br gives 0 for None, the empty string and "-"; an R$
\* marker and blanks around the numeral change nothing; with a "," the "." are
\* thousands separators and the "," the decimal point, without a "," the "." is
\* the decimal point: 1.234,56, 1234,56 and 1234.56 all give 1234.56 and
\* R$ 10,50 gives 10.5.
C18_NumeroBrasileiro ==
  tx.feito /\ tx.f = "parse_numero_br" =>
    /\ (tx.entrada \in {PyNone, PyStr(<<>>), PyStr(<<"-">>)} =>
          tx.num = [ok |-> TRUE, v |-> 0])
    /\ \A p \in PrefixosNumero, c \in CorposNumero, f \in SufixosNumero :
         tx.entrada = PyStr(p \o c \o f) =>
           tx.num = [ok |-> TRUE, v |-> ValorDoCorpo(c)]

\* "R$ 1.234,56" with a trailing blank was parsed
C18_Witness ==
  /\ tx.feito
  /\ tx.entrada = PyStr(<<"R", "$", " ", "1", ".", "2", "3", "4", ",", "5", "6", " ">>)
  /\ tx.num.v = 123456

\* C19: normalizar_texto applied to its own result changes nothing; the result
\* has no lower-case letter and none of the eleven accented capitals; the word
\* A-c,-a~-o and the word ACAO both give ACAO; None gives the empty string.
C19_NormalizarIdempotente ==
  tx.feito /\ tx.f = "normalizar_texto" =>
    /\ tx.texto2 = tx.texto
    /\ \A i \in 1..Len(tx.texto) :
         tx.texto[i] \notin Minusculas \cup AcentuadasMaiusculas
    /\ (tx.entrada \in {PyStr(<<"A", "c,", "a~", "o">>), PyStr(<<"A", "C", "A", "O">>)} => tx.texto = <<"A", "C", "A", "O">>)
    /\ (tx.entrada = PyNone => tx.texto = <<>>)

\* the word A-c,-a~-o was normalized to ACAO
C19_Witness ==
  /\ tx.feito
  /\ tx.f = "normalizar_texto"
  /\ tx.entrada = PyStr(<<"A", "c,", "a~", "o">>)
  /\ tx.texto = <<"A", "C", "A", "O">>

\* the positions of the rules of the run's table whose pattern is contained in
\* the normalized description of row i of df_mov
RegrasDaLinha(i) ==
  {j \in 1..Len(fech.REGRAS_CATEGORIA) :
     contains(fech.REGRAS_CATEGORIA[j].k, normalizar_texto(fech.df_mov[i].Descricao))}

\* C20: a movement whose description contains the patterns of several rules of
\* the table gets the category of the one that stands first in the table, and a
\* commit leaves every key of the table it loaded at the position it had (a
\* changed category replaces the value in place, new keys follow).
C20_PrimeiraRegraNaOrdemDeInsercao ==
  /\ \A i \in 1..Len(fech.df_mov) :
       RegrasDaLinha(i) # {} =>
         \E j \in RegrasDaLinha(i) :
           /\ \A m \in RegrasDaLinha(i) : j <= m
           /\ fech.df_mov[i].Categoria = fech.REGRAS_CATEGORIA[j].v
  /\ (commit.feito =>
        /\ Len(carregar_regras(regras_arquivo)) >= Len(commit.regras)
        /\ \A j \in 1..Len(commit.regras) :
             carregar_regras(regras_arquivo)[j].k = commit.regras[j].k)

\* a commit gave the first key of a two-rule table a new category, and the run
\* after it classified a movement that both rules match by that first rule
C20_Witness ==
  /\ commit.feito
  /\ Len(commit.regras) >= 2
  /\ carregar_regras(regras_arquivo)[1].v # commit.regras[1].v
  /\ \E i \in 1..Len(fech.df_mov) :
       /\ {1, 2} \subseteq RegrasDaLinha(i)
       /\ fech.df_mov[i].Categoria = carregar_regras(regras_arquivo)[1].v
       /\ fech.df_mov[i].Categoria # carregar_regras(regras_arquivo)[2].v

\* the hardcoded keyword sets in their fixed order, the last one apart: it
\* needs a word of each of its two lists
ConjuntosPalavraChave ==
  << [cat |-> "Dedetizacao / Controle de Pragas", palavras |-> {<<"A", "N", "T", "I", "N", "S", "E", "C", "T">>}],
     [cat |-> "Energia Eletrica",
      palavras |-> {<<"C", "I", "A", " ", "E", "S", "T", "A", "D", "U", "A", "L", " ", "D", "E", " ", "D", "I", "S", "T">>, <<"C", "E", "E", "E">>, <<"E", "N", "E", "R", "G", "I", "A", " ", "E", "L", "E", "T", "R", "I", "C", "A">>}],
     [cat |-> "Contabilidade e RH",
      palavras |-> {<<"R", "E", "C", "H", " ", "C", "O", "N", "T", "A", "B", "I", "L", "I", "D", "A", "D", "E">>, <<"R", "E", "C", "H", " ", "C", "O", "N", "T">>}],
     [cat |-> "Fatura Cartao",
      palavras |-> {<<"B", "U", "S", "I", "N", "E", "S", "S", " ", " ", " ", " ", " ", " ", "0", "5", "0", "3", "-", "2", "8", "5", "2">>, <<"B", "U", "S", "I", "N", "E", "S", "S", " ", "0", "5", "0", "3", "-", "2", "8", "5", "2">>,
                    <<"I", "T", "A", "U", " ", "U", "N", "I", "B", "A", "N", "C", "O", " ", "H", "O", "L", "D", "I", "N", "G", " ", "S", ".", "A", ".">>, <<"C", "A", "R", "T", "A", "O">>}],
     [cat |-> "Investimentos (Aplicacoes)",
      palavras |-> {<<"A", "P", "L", "I", "C", "A", "C", "A", "O">>, <<"C", "D", "B">>, <<"C", "R", "E", "D", "B", "A", "N", "C", "R", "F">>}],
     [cat |-> "Rendimentos de Aplicacoes",
      palavras |-> {<<"R", "E", "N", "D", " ", "P", "A", "G", "O", " ", "A", "P", "L", "I", "C">>, <<"R", "E", "N", "D", "I", "M", "E", "N", "T", "O", " ", "A", "P", "L", "I", "C">>, <<"R", "E", "N", "D", " ", "A", "P", "L", "I", "C">>,
                    <<"R", "E", "N", "D", "I", "M", "E", "N", "T", "O">>}],
     [cat |-> "Aluguel Comercial", palavras |-> {<<"Z", "O", "O", "P">>, <<"A", "L", "U", "G", "U", "E", "L">>}],
     [cat |-> "Motoboy / Entregas", palavras |-> {<<"M", "O", "T", "O", "B", "O", "Y">>, <<"E", "N", "T", "R", "E", "G", "A">>}],
     [cat |-> "Folha de Pagamento",
      palavras |-> {<<"C", "A", "R", "O", "L", "I", "N", "E">>, <<"V", "E", "R", "O", "N", "I", "C", "A">>, <<"E", "V", "E", "L", "L", "Y", "N">>, <<"S", "A", "L", "A", "R", "I", "O">>, <<"F", "O", "L", "H", "A">>}],
     [cat |-> "Nutricionista", palavras |-> {<<"A", "N", "A", " ", "P", "A", "U", "L", "A">>, <<"N", "U", "T", "R", "I", "C", "I", "O", "N", "I", "S", "T", "A">>}],
     [cat |-> "Impostos e Encargos",
      palavras |-> {<<"D", "A", "R", "F">>, <<"G", "P", "S">>, <<"F", "G", "T", "S">>, <<"I", "N", "S", "S">>, <<"S", "I", "M", "P", "L", "E", "S", " ", "N", "A", "C", "I", "O", "N", "A", "L">>,
                    <<"I", "M", "P", "O", "S", "T", "O">>}] >>
PalavrasTransferencia == {<<"T", "R", "A", "N", "S", "F", "E", "R", "E", "N", "C", "I", "A">>, <<"P", "I", "X">>}
PalavrasSocio == {<<"R", "I", "C", "A", "R", "D", "O">>, <<"L", "I", "Z", "I", "A", "N", "I">>, <<"L", "I", "Z", "I">>}
OcorreAlguma(palavras, desc_norm) == \E k \in palavras : contains(k, desc_norm)
TransferenciaESocio(desc_norm) ==
  OcorreAlguma(PalavrasTransferencia, desc_norm) /\ OcorreAlguma(PalavrasSocio, desc_norm)
ConjuntosQueCasam(desc_norm) ==
  {i \in 1..Len(ConjuntosPalavraChave) :
     OcorreAlguma(ConjuntosPalavraChave[i].palavras, desc_norm)}

\* C21: with no matching learned rule, a description that matches several
\* keyword sets gets the category of the earliest set in the fixed order (pest
\* control ... taxes, internal transfer last); the internal-transfer category is
\* returned only when a transfer keyword and a partner keyword both occur, and a
\* description with only one of the two, matching no other set, gets the sign
\* default.
C21_PrimeiroConjuntoNaOrdemFixa ==
  cl.feito /\ RegrasQueCasam = {} =>
    /\ ConjuntosQueCasam(DescNormCl) # {} =>
         \E i \in ConjuntosQueCasam(DescNormCl) :
           /\ \A j \in ConjuntosQueCasam(DescNormCl) : i <= j
           /\ cl.cat = ConjuntosPalavraChave[i].cat
    /\ (ConjuntosQueCasam(DescNormCl) = {} /\ TransferenciaESocio(DescNormCl) =>
         cl.cat = "Transferencia Interna / Socios")
    /\ (ConjuntosQueCasam(DescNormCl) = {} /\ ~TransferenciaESocio(DescNormCl) =>
         /\ cl.cat # "Transferencia Interna / Socios"
         /\ cl.mov.valor > 0 => cl.cat = "Vendas / Receitas"
         /\ cl.mov.valor < 0 => cl.cat = "Fornecedores e Insumos"
         /\ cl.mov.valor = 0 => cl.cat = "A Classificar")

\* a description with a payroll word, a transfer word and a partner word, no
\* learned rule matching, was classified as payroll, the earlier set
C21_Witness ==
  /\ cl.feito
  /\ RegrasQueCasam = {}
  /\ 9 \in ConjuntosQueCasam(DescNormCl)
  /\ TransferenciaESocio(DescNormCl)
  /\ cl.cat = "Folha de Pagamento"

\* the sum of the amounts of the rows of df at the positions in idx
RECURSIVE SomaNasPosicoes(_, _)
SomaNasPosicoes(df, idx) ==
  IF idx = {} THEN 0
  ELSE LET i == CHOOSE k \in idx : TRUE
       IN df[i].Valor + SomaNasPosicoes(df, idx \ {i})
PosicoesDe(df, cat, positivos) ==
  {i \in 1..Len(df) :
     /\ df[i].Categoria = cat
     /\ IF positivos THEN df[i].Valor > 0 ELSE df[i].Valor < 0}
CategoriasComValor(df) ==
  {df[i].Categoria : i \in {j \in 1..Len(df) : df[j].Valor # 0}}

\* C22: each category's Entradas is the sum of the positive amounts of the
\* movements classified into it and its Saidas the sum of the negative ones; a
\* zero amount changes neither and does not make its category appear; the
\* reported list holds exactly the categories that received a non-zero amount,
\* in ascending order of their labels, without duplicates.
C22_ResumoPorCategoria ==
  rs.feito =>
    /\ {rs.dados_cat[i].Categoria : i \in 1..Len(rs.dados_cat)} = CategoriasComValor(rs.df)
    /\ \A i \in 1..Len(rs.dados_cat) :
         /\ rs.dados_cat[i].Entradas
              = SomaNasPosicoes(rs.df, PosicoesDe(rs.df, rs.dados_cat[i].Categoria, TRUE))
         /\ rs.dados_cat[i].Saidas
              = SomaNasPosicoes(rs.df, PosicoesDe(rs.df, rs.dados_cat[i].Categoria, FALSE))
    /\ \A i, j \in 1..Len(rs.dados_cat) :
         i < j => str_lt(texto_categoria(rs.dados_cat[i].Categoria),
                         texto_categoria(rs.dados_cat[j].Categoria))

\* a frame with a positive and a negative amount in one category, and a zero
\* amount alone in another: two labels are reported, the zero one is not
C22_Witness ==
  /\ rs.feito
  /\ Len(rs.df) = 3
  /\ \E i \in 1..3 :
       /\ rs.df[i].Valor = 0
       /\ \A k \in 1..Len(rs.dados_cat) : rs.dados_cat[k].Categoria # rs.df[i].Categoria
  /\ Len(rs.dados_cat) = 2
  /\ rs.dados_cat[1].Categoria = "Fatura Cartao"
  /\ rs.dados_cat[2].Categoria = "Folha de Pagamento"

\* the trimmed text of cell i of the row of the description trial, and the
\* normalized name of its column
TextoDaCelula(i) == strip(pystr(ds.linha[i].v))
NomeNormalizado(i) == normalizar_texto(PyStr(strip(ds.linha[i].k)))
CelulaComTexto(i) == ds.linha[i].v # PyNone /\ TextoDaCelula(i) # <<>>
ColunaDeHistorico(i) ==
  contains(<<"H", "I", "S", "T">>, NomeNormalizado(i)) \/ contains(<<"D", "E", "S", "C", "R">>, NomeNormalizado(i))
ColunaIgnorada(i) ==
  NomeNormalizado(i) \in
    { <<"D", "A", "T", "A">>, <<"V", "A", "L", "O", "R">>, <<"V", "A", "L", "O", "R", "E", "S">>, <<"D", "E", "B", "I", "T", "O">>, <<"D", "E", "B", "I", "T", "O", "(", "-", ")">>, <<"D", "E", "B", "I", "T", "O", " ", "(", "+", ")">>,
      <<"D", "E", "B", "I", "T", "O", " ", "(", "-", ")">>, <<"C", "R", "E", "D", "I", "T", "O">>, <<"C", "R", "E", "D", "I", "T", "O", "(", "+", ")">>, <<"C", "R", "E", "D", "I", "T", "O", " ", "(", "+", ")">>, <<"C", "R", "E", "D", "I", "T", "O", " ", "(", "-", ")">>,
      <<"E", "N", "T", "R", "A", "D", "A">>, <<"E", "N", "T", "R", "A", "D", "A", "S">>, <<"S", "A", "I", "D", "A">>, <<"S", "A", "I", "D", "A", "S">>, <<"S", "A", "L", "D", "O">> }
\* the cells of the first pass, and those of the second: not ignored, their
\* text not collected by the first pass nor by an earlier cell of the second
PosicoesPasso1 == {i \in 1..Len(ds.linha) : CelulaComTexto(i) /\ ColunaDeHistorico(i)}
PosicoesPasso2 ==
  {i \in 1..Len(ds.linha) :
     /\ CelulaComTexto(i)
     /\ ~ColunaIgnorada(i)
     /\ \A j \in PosicoesPasso1 : TextoDaCelula(j) # TextoDaCelula(i)
     /\ \A j \in 1..(i - 1) :
          CelulaComTexto(j) /\ ~ColunaIgnorada(j) => TextoDaCelula(j) # TextoDaCelula(i)}
\* the texts of the cells at the positions in idx, in column order
RECURSIVE TextosEmOrdem(_, _)
TextosEmOrdem(idx, i) ==
  IF i > Len(ds.linha) THEN <<>>
  ELSE (IF i \in idx THEN << TextoDaCelula(i) >> ELSE <<>>) \o TextosEmOrdem(idx, i + 1)
FragmentosEsperados == TextosEmOrdem(PosicoesPasso1, 1) \o TextosEmOrdem(PosicoesPasso2, 1)
TemDescricaoPronta ==
  /\ has_key(ds.linha, <<"d", "e", "s", "c", "r", "i", "c", "a", "o">>)
  /\ get(ds.linha, <<"d", "e", "s", "c", "r", "i", "c", "a", "o">>) # PyNone
  /\ get(ds.linha, <<"d", "e", "s", "c", "r", "i", "c", "a", "o">>) # PyStr(<<>>)

CelulaEmMaiusculas(x) == upper(strip(pystr(x)))
TemCelula(row, textos) ==
  \E i \in 1..Len(row) :
    row[i] # PyNaN /\ row[i] # PyNone /\ CelulaEmMaiusculas(row[i]) \in textos
LinhaQualifica(row) ==
  /\ TemCelula(row, {<<"D", "A", "T", "A">>})
  /\ TemCelula(row, {<<"L", "A", "N", "C,", "A", "M", "E", "N", "T", "O">>, <<"L", "A", "N", "C", "A", "M", "E", "N", "T", "O">>, <<"L", "A", "N", "C,", "A", "M", "E", "N", "T", "O", "S">>,
                     <<"D", "E", "S", "C", "R", "I", "C,", "A~", "O">>, <<"D", "E", "S", "C", "R", "I", "C", "A", "O">>, <<"T", "I", "P", "O">>})
LinhasQueQualificam == {i \in 1..Len(ex.arquivo.raw) : LinhaQualifica(ex.arquivo.raw[i])}
LinhaInteiraVazia(row) == \A i \in 1..Len(row) : row[i] \in {PyNaN, PyNone}
\* the rows of the sheet after row h that have a value in some cell
LinhasAbaixo(h) ==
  SelectSeq(SubSeq(ex.arquivo.raw, h + 1, Len(ex.arquivo.raw)),
            LAMBDA r : ~LinhaInteiraVazia(r))
\* record reg of the reading holds the cells of row, under the names written in
\* the cells of cabecalho (an empty header cell leaves the name open)
RegistroDe(reg, cabecalho, row) ==
  /\ Len(reg) = Len(row)
  /\ \A c \in 1..Len(row) :
       /\ cabecalho[c] \notin {PyNaN, PyNone} => reg[c].k = strip(pystr(cabecalho[c]))
       /\ reg[c].v = row[c]

\* C24: in a spreadsheet the header is the topmost row with a cell equal (after
\* trim and upper-casing) to DATA and a cell equal to one of the six header
\* words; the rows above it are discarded, the rows below it that are not
\* entirely empty are the data rows in their order; when no row qualifies, row
\* 1 is the header; the reading never raises.
C24_VarreduraDoCabecalho ==
  ex.feito /\ ex.arquivo.suffix \in {<<".", "x", "l", "s", "x">>, <<".", "x", "l", "s">>} /\ ex.arquivo.raw # <<>> =>
    /\ ex.lido.ok
    /\ \A h \in LinhasQueQualificam :
         (\A j \in LinhasQueQualificam : h <= j) =>
           /\ Len(ex.lido.linhas) = Len(LinhasAbaixo(h))
           /\ \A r \in 1..Len(ex.lido.linhas) :
                RegistroDe(ex.lido.linhas[r], ex.arquivo.raw[h], LinhasAbaixo(h)[r])
    /\ LinhasQueQualificam = {} =>
         /\ Len(ex.lido.linhas) = Len(ex.arquivo.raw) - 1
         /\ \A r \in 1..Len(ex.lido.linhas) :
              RegistroDe(ex.lido.linhas[r], ex.arquivo.raw[1], ex.arquivo.raw[r + 1])

\* two noise rows, the header in row 3, then a data row, an empty row and a
\* second header row: the reading has two records, the first named by row 3
C24_Witness ==
  /\ ex.feito
  /\ ex.arquivo.suffix = <<".", "x", "l", "s", "x">>
  /\ Len(ex.arquivo.raw) = 5
  /\ LinhasQueQualificam = {3, 5}
  /\ ex.arquivo.raw[3] = CabecalhoDescricao
  /\ LinhaInteiraVazia(ex.arquivo.raw[4])
  /\ Len(ex.lido.linhas) = 1
  /\ get(ex.lido.linhas[1], <<"D", "e", "s", "c", "r", "i", "c,", "a~", "o">>) = PyStr(<<"T", "I", "P", "O">>)

\* the text of the cell the bank adapter resolved the amount of a row from: the
\* first unified value alias with a usable cell, when it parses to a non-zero
\* amount
AmountCellText(linha) == strip(pystr(CampoValor(linha)))
ValorVeioDoCampoUnificado(linha) ==
  /\ CampoValor(linha).t = "str"
  /\ parse_numero_br(CampoValor(linha)).ok
  /\ parse_numero_br(CampoValor(linha)).v # 0

\* C25 (as stated): the description of a bank movement never contains the raw
\* value of the column its amount was resolved from, for each of the aliases
\* Valor, VALOR, valor and Valor (R$).
C25_ValorForaDaDescricao ==
  ex.feito /\ ex.conta = "Itau" /\ ex.res.erro = ""
           /\ Len(ex.res.movimentos) = Len(LinhasRetidas) =>
    \A i \in 1..Len(LinhasRetidas) :
      ValorVeioDoCampoUnificado(LinhasRetidas[i])
        /\ ex.res.movimentos[i].descricao.t = "str" =>
          ~contains(AmountCellText(LinhasRetidas[i]), ex.res.movimentos[i].descricao.s)

\* the keys a session's commit puts into the table: the normalized descriptions
\* of its edited frame
ChavesDaSessao(s) ==
  {normalizar_texto(sessoes[s].edited_df[i].Descricao) :
     i \in 1..Len(sessoes[s].edited_df)}
CategoriaDaSessao(s, k) ==
  sessoes[s].edited_df[
    CHOOSE i \in 1..Len(sessoes[s].edited_df) :
      /\ normalizar_texto(sessoes[s].edited_df[i].Descricao) = k
      /\ \A j \in 1..Len(sessoes[s].edited_df) :
           normalizar_texto(sessoes[s].edited_df[j].Descricao) = k => j <= i].Categoria

\* C26 (as stated): when two sessions have each committed their rules, however
\* their loads and writes interleaved, the persisted table holds the rules of
\* both.
C26_NenhumaRegraPerdida ==
  (\A s \in Sessoes : sessoes[s].pc = "salvou") =>
    \A s \in Sessoes : \A k \in ChavesDaSessao(s) :
      /\ has_key(carregar_regras(regras_arquivo), k)
      /\ get(carregar_regras(regras_arquivo), k) = CategoriaDaSessao(s, k)

\* the rows of a ledger, and the month (YYYY-MM) a period name puts in the editor
LinhasDe(df) == {df[i] : i \in 1..Len(df)}
MesMostrado(nome_periodo) == get_ano_mes(nome_periodo)
LinhaDeOutroMes(row, nome_periodo) ==
  \/ MesMostrado(nome_periodo) = PyNone
  \/ to_datetime(row.Data) = NaT
  \/ strftime_ano_mes(to_datetime(row.Data)) # MesMostrado(nome_periodo)

\* C27 (as stated): a save of the cash entries replaces only the ledger rows of
\* the month shown in the editor; every row of the session's ledger dated in
\* another month, or without a parseable date, is in the ledger written to
\* Drive, for every period name, also one that does not start with YYYY-MM.
C27_OutrosMesesPreservados ==
  \A i \in 1..Len(caixa_hist) :
    \A row \in LinhasDe(caixa_hist[i].df_global) :
      LinhaDeOutroMes(row, caixa_hist[i].nome_periodo) =>
        row \in LinhasDe(caixa_hist[i].df_novo_global)

\* the same for the saves made under a period name that starts with a month
OutrosMesesPreservadosComMesValido ==
  \A i \in 1..Len(caixa_hist) :
    MesMostrado(caixa_hist[i].nome_periodo) # PyNone =>
      \A row \in LinhasDe(caixa_hist[i].df_global) :
        LinhaDeOutroMes(row, caixa_hist[i].nome_periodo) =>
          row \in LinhasDe(caixa_hist[i].df_novo_global)

\* C28 (as stated): entries saved by one session are not lost through another
\* session's save: when B has saved entries and A, which had loaded the ledger,
\* saves its own afterwards, the ledger on Drive holds the entries B saved and
\* those A saved (checked for saves under period names that start with a month).
C28_SalvamentosDeOutraSessao ==
  /\ Len(caixa_hist) = 2
  /\ caixa_hist[1].sessao # caixa_hist[2].sessao
  /\ MesMostrado(caixa_hist[1].nome_periodo) # PyNone
  /\ MesMostrado(caixa_hist[2].nome_periodo) # PyNone
  => /\ LinhasDe(caixa_hist[1].df_din_limpo) \subseteq LinhasDe(caixa_drive)
     /\ LinhasDe(caixa_hist[2].df_din_limpo) \subseteq LinhasDe(caixa_drive)

\* no row given to the two programs has a balance marker in its normalized
\* description
MarcadoresDeSaldo ==
  {<<"S", "A", "L", "D", "O", " ", "A", "N", "T", "E", "R", "I", "O", "R">>, <<"S", "A", "L", "D", "O", " ", "T", "O", "T", "A", "L", " ", "D", "I", "S", "P", "O", "N", "I", "V", "E", "L", " ", "D", "I", "A">>, <<"S", "A", "L", "D", "O", " ", "D", "O", " ", "D", "I", "A">>, <<"S", "A", "L", "D", "O", " ", "D", "I", "A">>}
LinhasSemMarcadorDeSaldo ==
  \A i \in 1..Len(cli.linhas) :
    \A m \in MarcadoresDeSaldo :
      ~contains(m, normalizar_texto(extrair_descricao_linha(cli.linhas[i])))

\* C29: for rows without balance markers the adapters of the command-line
\* program and of the app return the same entries total, exits total, result
\* and movements (or fail alike), and with an empty rule table the two
\* classifiers give every movement the same category.
C29_CliEAppIguais ==
  cli.feito /\ LinhasSemMarcadorDeSaldo =>
    /\ cli.cli.erro = cli.app.erro
    /\ cli.cli.entradas = cli.app.entradas
    /\ cli.cli.saidas = cli.app.saidas
    /\ cli.cli.resultado = cli.app.resultado
    /\ cli.cli.movimentos = cli.app.movimentos
    /\ cli.cats_cli = cli.cats_app

\* a payroll row written with an accent and a row whose amount comes from the
\* debit column went through both programs
C29_Witness ==
  /\ cli.feito
  /\ cli.conta = "Itau"
  /\ LinhasSemMarcadorDeSaldo
  /\ Len(cli.cli.movimentos) = 2
  /\ cli.cli.movimentos[1].valor = 0 - 150000
  /\ cli.cats_cli[1] = "Folha de Pagamento"
  /\ cli.cli.movimentos[2].valor = 0 - 8000
  /\ cli.cats_app[2] = "Fatura Cartao"

(***************************************************************************)
(* The login session                                                       *)
(***************************************************************************)
Autenticada ==
  \E i \in 1..Len(session_state) :
    session_state[i].k = "auth_ok" /\ session_state[i].v = PyTrue

TemUsuariosConfigurados ==
  has_key(secrets, "auth_users") /\ get(secrets, "auth_users") # <<>>

UsuarioConfigurado(username) ==
  TemUsuariosConfigurados /\ has_key(get(secrets, "auth_users"), username)

\* the submitted password is the one the secrets hold for the submitted user,
\* or APP_PASSWORD when the secrets hold no user
SenhaConfere(username, senha) ==
  IF TemUsuariosConfigurados
  THEN /\ UsuarioConfigurado(username)
       /\ get(get(get(secrets, "auth_users"), username), "password") = PyStr(senha)
  ELSE get(secrets, "APP_PASSWORD") = PyStr(senha)

\* the role written in the secrets for the user, as written
PapelEscrito(username) ==
  IF TemUsuariosConfigurados
  THEN get(get(get(secrets, "auth_users"), username.s), "role")
  ELSE PyStr(<<"a", "d", "m", "i", "n">>)

\* the same stripped and lower-cased, operador when none is written
PapelNormalizado(username) ==
  IF PapelEscrito(username) = PyNone THEN PyStr(<<"o", "p", "e", "r", "a", "d", "o", "r">>)
  ELSE PyStr(lower(strip(pystr(PapelEscrito(username)))))

AbasDeAdmin == {"Fechamento", "Conferencia", "Historico"}

PainelSoAutenticado ==
  tela.fechamento \/ tela.abas # <<>> => Autenticada

AbasDeAdminSoParaAdmin ==
  \A aba \in AbasDeAdmin :
    in_list(aba, tela.abas) => get(session_state, "role") = PyStr(<<"a", "d", "m", "i", "n">>)

EntradaSoComSenhaCerta ==
  ~Autenticada /\ Autenticada' =>
    /\ tela'.evento = "entrar"
    /\ SenhaConfere(tela'.username, tela'.senha)

SairLimpaASessao ==
  tela'.evento = "sair" =>
    /\ \A k \in {"auth_ok", "user", "role"} : ~has_key(session_state', k)
    /\ tela'.login_form
    /\ ~tela'.fechamento
    /\ tela'.abas = <<>>

\* C30: over any sequence of login attempts, reruns and logouts, the closing
\* computation and the tabs are reached only in an authenticated session; a
\* session becomes authenticated only by a submit whose password is the one
\* configured for the entered user (APP_PASSWORD when no user is configured);
\* the role of an authenticated session is the role written for its user,
\* stripped and lower-cased, operador when none is written, admin in the
\* APP_PASSWORD fallback; the Fechamento, Conferencia and Historico tabs render
\* only for the role admin; and 'Sair' removes auth_ok, user and role, the run
\* that follows showing the login form alone.
C30_SessaoDeLogin ==
  /\ [](/\ PainelSoAutenticado
        /\ AbasDeAdminSoParaAdmin
        /\ (Autenticada =>
              get(session_state, "role") = PapelNormalizado(get(session_state, "user"))))
  /\ [][EntradaSoComSenhaCerta /\ SairLimpaASessao]_vars

\* the same with the role of the session being the role as written in the secrets
C30_PapelComoEscrito ==
  /\ [](/\ PainelSoAutenticado
        /\ AbasDeAdminSoParaAdmin
        /\ (Autenticada =>
              get(session_state, "role") = PapelEscrito(get(session_state, "user"))))
  /\ [][EntradaSoComSenhaCerta /\ SairLimpaASessao]_vars

\* a user whose role is written with a capital and a space has just logged in
\* and sees the four tabs
C30_Witness ==
  /\ tela.evento = "entrar"
  /\ Autenticada
  /\ TemUsuariosConfigurados
  /\ PapelEscrito(get(session_state, "user")) = PyStr(<<" ", "A", "d", "m", "i", "n">>)
  /\ get(session_state, "role") = PyStr(<<"a", "d", "m", "i", "n">>)
  /\ tela.fechamento
  /\ tela.abas = Abas

====
